---- MODULE Spec2Model ----
(***************************************************************************)
(* A model of the IP allocator: the Region -> Zone -> SubZone tree kept in *)
(* the "regions" collection, the allocation / reservation operations of    *)
(* AllocationService, the CRUD operations of CRUDService and the CIDR      *)
(* arithmetic of package utils.                                            *)
(*                                                                         *)
(* Addresses are AddrBits wide instead of 32 / 128 bits; an address string *)
(* is a record [v, a, form]: its family (4 or 6, 0 when net.ParseIP        *)
(* rejects it), its numeric value and its textual form ("canon" is what    *)
(* net.IP.String prints, "alt" any other spelling of the same address).    *)
(* A CIDR string is a record [v, ip, ones]; v = 0 is the empty string.     *)
(* v = V4InV6 is a CIDR written on an IPv4-mapped IPv6 address             *)
(* ("::ffff:10.0.0.0/112"): net.ParseCIDR keeps it 16 bytes long with a    *)
(* 16-byte mask, and net.IPNet.Contains folds it to 4 bytes.  The IPv6     *)
(* addresses of family 6 lie outside ::ffff:0:0/96.                        *)
(***************************************************************************)
EXTENDS Integers, Sequences, FiniteSets, TLC

VARIABLES regions, calls, last, fn

vars == <<regions, calls, last, fn>>

---------------------------------------------------------------------------
(* Bounds of the model *)

AddrBits == 4

MaxList == 2

MaxNodes == 3

MaxPreferred == 1

MaxIPs == 1

MaxCount == 2

MaxCalls == 2

MaxHeld == 2

MaxWanted == 2

MaxAddresses == 2

MaxRequestCount == 10

MaxZones == 2

AddrSpace == 0 .. (2^AddrBits - 1)

\* The family code of an IPv4-mapped IPv6 address.
V4InV6 == 46

\* The bits of a 16-byte mask in front of the 4 bytes of the IPv4 address.
MappedBits == 3 * AddrBits

---------------------------------------------------------------------------
(* Strings *)

EmptyCIDR == [v |-> 0, ip |-> 0, ones |-> 0]

CIDRStrings ==
    {EmptyCIDR} \cup [v : {4, 6}, ip : AddrSpace, ones : 0 .. AddrBits]

\* "::ffff:a.b.c.d/n" with n at least the length of the mapped prefix.
MappedCIDRStrings ==
    [v : {V4InV6}, ip : AddrSpace,
     ones : MappedBits .. (MappedBits + AddrBits)]

BadIP == [v |-> 0, a |-> 0, form |-> "alt"]

Canon(v, a) == [v |-> v, a |-> a, form |-> "canon"]

Alt(v, a) == [v |-> v, a |-> a, form |-> "alt"]

SeqToSet(s) == {s[i] : i \in 1 .. Len(s)}

---------------------------------------------------------------------------
(* package utils: addresses *)

IsIPv4(ip) == ip.v = 4

IsIPv6(ip) == ip.v = 6

ParseIPOk(s) == s.v # 0

NormalizeIP(s) == IF ~ParseIPOk(s) THEN BadIP ELSE Canon(s.v, s.a)

HostSize(ones) == 2^(AddrBits - ones)

MaskIP(ip, ones) == (ip \div HostSize(ones)) * HostSize(ones)

\* net.IP.To4 on the family: a mapped address is used as its 4 bytes.
To4(v) == IF v = V4InV6 THEN 4 ELSE v

\* The ones of the mask over the bytes in use: networkNumberAndMask drops the
\* first 12 bytes of a 16-byte mask laid over a mapped address.
maskOnes(network) ==
    IF network.v = V4InV6 THEN network.ones - MappedBits ELSE network.ones

ParseCIDR(c) == [v |-> c.v, ip |-> MaskIP(c.ip, maskOnes(c)), ones |-> c.ones]

Contains(network, ip) ==
    /\ To4(ip.v) = To4(network.v)
    /\ MaskIP(ip.a, maskOnes(network)) = network.ip

IsIPInCIDR(ipStr, cidrStr) ==
    /\ ParseIPOk(ipStr)
    /\ Contains(ParseCIDR(cidrStr), ipStr)

incrementIP(v, a) == (a + 1) % (2^AddrBits)

decrementIP(v, a) == (a + 2^AddrBits - 1) % (2^AddrBits)

---------------------------------------------------------------------------
(* package utils: CIDR hierarchy *)

NetworkIP(network) == [v |-> network.v, a |-> network.ip]

getLastIPInNetwork(network) ==
    [v |-> network.v, a |-> network.ip + (HostSize(maskOnes(network)) - 1)]

\* ValidateIPRangeInCIDR looking at the first address only.
ValidateIPRangeInCIDRFirstOnly(childNet, parentNet) ==
    Contains(parentNet, NetworkIP(childNet))

ValidateIPRangeInCIDR(childNet, parentNet) ==
    /\ Contains(parentNet, NetworkIP(childNet))
    /\ Contains(parentNet, getLastIPInNetwork(childNet))

\* ValidateCIDRHierarchy without the range check: prefix lengths only.
ValidateCIDRHierarchyPrefixOnly(parentCIDR, childCIDR) ==
    IF parentCIDR = EmptyCIDR \/ childCIDR = EmptyCIDR THEN "nil"
    ELSE IF ParseCIDR(childCIDR).ones < ParseCIDR(parentCIDR).ones
        THEN "cannot be larger than parent"
    ELSE "nil"

\* The version of ValidateCIDRHierarchy that asks only whether the parent
\* contains the child's network address.
ValidateCIDRHierarchyNetworkOnly(parentCIDR, childCIDR) ==
    IF parentCIDR = EmptyCIDR \/ childCIDR = EmptyCIDR THEN "nil"
    ELSE LET parentNet == ParseCIDR(parentCIDR)
             childNet == ParseCIDR(childCIDR)
         IN  IF ~Contains(parentNet, NetworkIP(childNet))
                 THEN "not within parent"
             ELSE IF childNet.ones < parentNet.ones
                 THEN "cannot be larger than parent"
             ELSE "nil"

ValidateCIDRHierarchy(parentCIDR, childCIDR) ==
    IF parentCIDR = EmptyCIDR \/ childCIDR = EmptyCIDR THEN "nil"
    ELSE LET parentNet == ParseCIDR(parentCIDR)
             childNet == ParseCIDR(childCIDR)
         IN  IF ~ValidateIPRangeInCIDR(childNet, parentNet)
                 THEN "not entirely within parent"
             ELSE IF childNet.ones < parentNet.ones
                 THEN "cannot be larger than parent"
             ELSE "nil"

---------------------------------------------------------------------------
(* package utils: the address scanner *)

isNetworkOrBroadcast(ip, network) ==
    IF ip.a = network.ip THEN TRUE
    ELSE IF IsIPv4(ip) THEN ip.a = getLastIPInNetwork(network).a
    ELSE FALSE

\* The loop of GetNextAvailableIP from address a on. It ends with the first
\* free address, with "no available IPs" once the address leaves the network,
\* and never ("hang") when incrementIP has wrapped round to an address
\* already visited.
RECURSIVE scanLoop(_, _, _, _)
scanLoop(network, a, usedIPs, steps) ==
    LET ip == Canon(network.v, a)
    IN  IF ~Contains(network, ip) THEN [err |-> "no available IPs", ip |-> BadIP]
        ELSE IF steps >= 2^AddrBits THEN [err |-> "hang", ip |-> BadIP]
        ELSE IF ip \notin usedIPs /\ ~isNetworkOrBroadcast(ip, network)
            THEN [err |-> "nil", ip |-> ip]
        ELSE scanLoop(network, incrementIP(network.v, a), usedIPs, steps + 1)

\* GetNextAvailableIP with only the allocated list in usedIPs.
GetNextAvailableIPAllocatedOnly(cidrStr, allocated, reserved) ==
    LET network == ParseCIDR(cidrStr)
    IN  scanLoop(network, network.ip, SeqToSet(allocated), 0)

GetNextAvailableIP(cidrStr, allocated, reserved) ==
    LET network == ParseCIDR(cidrStr)
        usedIPs == SeqToSet(allocated) \cup SeqToSet(reserved)
    IN  scanLoop(network, network.ip, usedIPs, 0)

\* The loop of GetAvailableIPsInRange from address a on.  It ends when the
\* address leaves the network or limit addresses are collected, and never
\* ("hang") when incrementIP has gone round the address space since the last
\* address collected.
RECURSIVE rangeScan(_, _, _, _, _, _)
rangeScan(network, a, usedIPs, available, limit, steps) ==
    LET ip == Canon(network.v, a)
    IN  IF ~(Contains(network, ip) /\ Len(available) < limit)
            THEN [hang |-> FALSE, ips |-> available]
        ELSE IF steps >= 2^AddrBits THEN [hang |-> TRUE, ips |-> available]
        ELSE IF ip \notin usedIPs /\ ~isNetworkOrBroadcast(ip, network)
            THEN rangeScan(network, incrementIP(network.v, a), usedIPs,
                           Append(available, ip), limit, 0)
        ELSE rangeScan(network, incrementIP(network.v, a), usedIPs,
                       available, limit, steps + 1)

GetAvailableIPsInRange(cidrStr, allocated, reserved, limit) ==
    LET network == ParseCIDR(cidrStr)
        usedIPs == SeqToSet(allocated) \cup SeqToSet(reserved)
    IN  rangeScan(network, network.ip, usedIPs, <<>>, limit, 0)

\* GetIPRange: the first and the last usable address of a CIDR.
GetIPRange(cidrStr) ==
    LET network == ParseCIDR(cidrStr)
        lastIP == network.ip + (HostSize(network.ones) - 1)
    IN  IF network.v = 4
            THEN [first |-> Canon(4, incrementIP(4, network.ip)),
                  last |-> Canon(4, decrementIP(4, lastIP))]
        ELSE [first |-> Canon(network.v, network.ip),
              last |-> Canon(network.v, lastIP)]

\* CountIPsInCIDR subtracting the two addresses in both families.
CountIPsInCIDRAnyFamily(cidrStr) ==
    IF cidrStr = EmptyCIDR THEN 0
    ELSE LET hostBits == AddrBits - ParseCIDR(cidrStr).ones
         IN  IF hostBits > 1 THEN 2^hostBits - 2 ELSE 2^hostBits

CountIPsInCIDR(cidrStr) ==
    IF cidrStr = EmptyCIDR THEN 0
    ELSE LET network == ParseCIDR(cidrStr)
             hostBits == AddrBits - network.ones
             total == 2^hostBits
         IN  IF network.v = 4 /\ hostBits > 1 THEN total - 2 ELSE total

\* The second GetNextAvailableIP of package utils: it walks from GetFirstIP
\* to GetLastIP and compares addresses as numbers.
GetFirstIP(cidr) ==
    LET ipnet == ParseCIDR(cidr)
    IN  IF ipnet.v = 4 THEN Canon(4, incrementIP(4, ipnet.ip))
        ELSE Canon(ipnet.v, ipnet.ip)

GetLastIP(cidr) ==
    LET ipnet == ParseCIDR(cidr)
        broadcast == ipnet.ip + (HostSize(ipnet.ones) - 1)
    IN  IF ipnet.v = 4 THEN Canon(4, decrementIP(4, broadcast))
        ELSE Canon(ipnet.v, broadcast)

compareIPs(ip1, ip2) == IF ip1.a < ip2.a THEN -1 ELSE IF ip1.a = ip2.a THEN 0 ELSE 1

\* The loop of that GetNextAvailableIP from currentIP on; "hang" as in
\* scanLoop.
RECURSIVE rangeLoop(_, _, _, _)
rangeLoop(currentIP, lastIP, usedIPs, steps) ==
    IF compareIPs(currentIP, lastIP) > 0
        THEN [err |-> "no available IPs", ip |-> BadIP]
    ELSE IF steps >= 2^AddrBits THEN [err |-> "hang", ip |-> BadIP]
    ELSE IF currentIP \notin usedIPs THEN [err |-> "nil", ip |-> currentIP]
    ELSE rangeLoop(Canon(currentIP.v, incrementIP(currentIP.v, currentIP.a)),
                   lastIP, usedIPs, steps + 1)

GetNextAvailableIPFirstLast(cidr, allocatedIPs, reservedIPs) ==
    LET usedIPs == SeqToSet(allocatedIPs) \cup SeqToSet(reservedIPs)
    IN  rangeLoop(GetFirstIP(cidr), GetLastIP(cidr), usedIPs, 0)

RECURSIVE SplitIPsByVersion(_)
SplitIPsByVersion(ips) ==
    IF ips = <<>> THEN [err |-> "nil", ipv4s |-> <<>>, ipv6s |-> <<>>]
    ELSE LET rest == SplitIPsByVersion(Tail(ips))
             ip == Head(ips)
         IN  IF ~ParseIPOk(ip) \/ rest.err # "nil"
                 THEN [err |-> "invalid IP address", ipv4s |-> <<>>, ipv6s |-> <<>>]
             ELSE IF IsIPv4(ip)
                 THEN [rest EXCEPT !.ipv4s = <<NormalizeIP(ip)>> \o @]
             ELSE [rest EXCEPT !.ipv6s = <<NormalizeIP(ip)>> \o @]

---------------------------------------------------------------------------
(* The regions collection *)

SubZone(name, v4, v6) ==
    [name |-> name, v4 |-> v4, v6 |-> v6,
     a4 |-> <<>>, a6 |-> <<>>, r4 |-> <<>>, r6 |-> <<>>]

Zone(name, v4, v6, subs) == [name |-> name, v4 |-> v4, v6 |-> v6, subs |-> subs]

Region(name, v4, v6, zones) ==
    [name |-> name, v4 |-> v4, v6 |-> v6, zones |-> zones]

\* The first element of seq named name (FindOne, and the loops that break on
\* the first match), 0 when there is none.
IndexOfName(seq, name) ==
    IF \E i \in 1 .. Len(seq) : seq[i].name = name
        THEN CHOOSE i \in 1 .. Len(seq) :
                /\ seq[i].name = name
                /\ \A j \in 1 .. (i - 1) : seq[j].name # name
        ELSE 0

findSubZoneWithHierarchy(db, regionName, zoneName, subZoneName) ==
    LET ri == IndexOfName(db, regionName)
        zi == IF ri = 0 THEN 0 ELSE IndexOfName(db[ri].zones, zoneName)
        si == IF zi = 0 THEN 0
              ELSE IndexOfName(db[ri].zones[zi].subs, subZoneName)
    IN  [err |-> IF ri = 0 THEN "region not found"
                 ELSE IF zi = 0 THEN "zone not found"
                 ELSE IF si = 0 THEN "sub-zone not found"
                 ELSE "nil",
         ri |-> ri, zi |-> zi, si |-> si]

\* $pullAll: every occurrence of every listed value leaves the array.
PullAll(list, values) ==
    SelectSeq(list, LAMBDA x : x \notin SeqToSet(values))

\* $pull {name: name}: every element of that name leaves the array.
PullNamed(seq, name) == SelectSeq(seq, LAMBDA e : e.name # name)

\* The $set document of an update request: an empty field is left alone.
SetFields(node, req) ==
    [node EXCEPT !.name = IF req.name # "" THEN req.name ELSE @,
                 !.v4 = IF req.v4 # EmptyCIDR THEN req.v4 ELSE @,
                 !.v6 = IF req.v6 # EmptyCIDR THEN req.v6 ELSE @]

\* The update documents the services send, applied to one array element.
PushAllocated(ipv4s, ipv6s) ==
    [op |-> "$push", a4 |-> ipv4s, a6 |-> ipv6s, r4 |-> <<>>, r6 |-> <<>>]

PushReserved(ipv4s, ipv6s) ==
    [op |-> "$push", a4 |-> <<>>, a6 |-> <<>>, r4 |-> ipv4s, r6 |-> ipv6s]

PullAllocated(ipv4s, ipv6s) ==
    [op |-> "$pullAll", a4 |-> ipv4s, a6 |-> ipv6s, r4 |-> <<>>, r6 |-> <<>>]

PullReserved(ipv4s, ipv6s) ==
    [op |-> "$pullAll", a4 |-> <<>>, a6 |-> <<>>, r4 |-> ipv4s, r6 |-> ipv6s]

ApplyToSubZone(sz, update) ==
    IF update.op = "$push"
        THEN [sz EXCEPT !.a4 = @ \o update.a4, !.a6 = @ \o update.a6,
                        !.r4 = @ \o update.r4, !.r6 = @ \o update.r6]
    ELSE IF update.op = "$pullAll"
        THEN [sz EXCEPT !.a4 = PullAll(@, update.a4),
                        !.a6 = PullAll(@, update.a6),
                        !.r4 = PullAll(@, update.r4),
                        !.r6 = PullAll(@, update.r6)]
    ELSE SetFields(sz, update.req)

ApplyToZone(z, update) ==
    IF update.op = "$push" THEN [z EXCEPT !.subs = Append(@, update.sub)]
    ELSE IF update.op = "$pull"
        THEN [z EXCEPT !.subs = PullNamed(@, update.name)]
    ELSE SetFields(z, update.req)

\* UpdateOne({name: regionName}, update, arrayFilters zone.name): the update
\* applied to every zone named zoneName of the first region named regionName.
UpdateZones(db, regionName, zoneName, update) ==
    LET ri == IndexOfName(db, regionName)
        zones == db[ri].zones
    IN  IF ri = 0 THEN db
        ELSE [db EXCEPT ![ri].zones =
                 [j \in 1 .. Len(zones) |->
                     IF zones[j].name = zoneName
                         THEN ApplyToZone(zones[j], update)
                         ELSE zones[j]]]

\* UpdateSubZones replacing the sub-zone array of the matched zone by its
\* matched elements: the other sub-zones of the zone are lost.
UpdateSubZonesMatchedOnly(db, regionName, zoneName, subZoneName, update) ==
    LET ri == IndexOfName(db, regionName)
        zones == db[ri].zones
        Hit(sz) == sz.name = subZoneName
        Upd(subs) == [k \in 1 .. Len(subs) |-> ApplyToSubZone(subs[k], update)]
    IN  IF ri = 0 THEN db
        ELSE [db EXCEPT ![ri].zones =
                 [j \in 1 .. Len(zones) |->
                     IF zones[j].name # zoneName THEN zones[j]
                     ELSE [zones[j] EXCEPT !.subs = Upd(SelectSeq(@, Hit))]]]

\* UpdateOne({name: regionName}, update, arrayFilters zone.name, subzone.name):
\* the update applied to every sub-zone named subZoneName of every zone named
\* zoneName of the first region named regionName.
UpdateSubZones(db, regionName, zoneName, subZoneName, update) ==
    LET ri == IndexOfName(db, regionName)
        zones == db[ri].zones
    IN  IF ri = 0 THEN db
        ELSE [db EXCEPT ![ri].zones =
                 [j \in 1 .. Len(zones) |->
                     IF zones[j].name # zoneName THEN zones[j]
                     ELSE [zones[j] EXCEPT !.subs =
                              [k \in 1 .. Len(zones[j].subs) |->
                                  IF zones[j].subs[k].name = subZoneName
                                      THEN ApplyToSubZone(zones[j].subs[k],
                                                          update)
                                      ELSE zones[j].subs[k]]]]]

MatchedCount(db, regionName) == IF IndexOfName(db, regionName) = 0 THEN 0 ELSE 1

---------------------------------------------------------------------------
(* AllocationService *)

\* isIPUsed without its loop over the reserved list.
isIPUsedAllocatedOnly(ip, allocated, reserved) == ip \in SeqToSet(allocated)

isIPUsed(ip, allocated, reserved) ==
    \/ ip \in SeqToSet(allocated)
    \/ ip \in SeqToSet(reserved)

\* validateIPInSubZoneCIDR without the range check.
validateIPInSubZoneCIDRAnyRange(ip, subZone) ==
    LET cidr == IF IsIPv4(ip) THEN subZone.v4 ELSE subZone.v6
    IN  IF ~ParseIPOk(ip) THEN "invalid IP address"
        ELSE IF cidr = EmptyCIDR THEN "no CIDR configured for IP version"
        ELSE "nil"

validateIPInSubZoneCIDR(ip, subZone) ==
    LET cidr == IF IsIPv4(ip) THEN subZone.v4 ELSE subZone.v6
    IN  IF ~ParseIPOk(ip) THEN "invalid IP address"
        ELSE IF cidr = EmptyCIDR THEN "no CIDR configured for IP version"
        ELSE IF ~IsIPInCIDR(ip, cidr) THEN "IP is not in CIDR range"
        ELSE "nil"

\* The preferred-address loop of allocateIPsForVersionEnhanced.
RECURSIVE preferredPass(_, _, _, _, _, _, _)
preferredPass(preferredIPs, allocatedIPs, count, version, cidr, allocatedList, reservedList) ==
    IF preferredIPs = <<>> \/ Len(allocatedIPs) >= count THEN allocatedIPs
    ELSE LET ip == Head(preferredIPs)
             normalizedIP == NormalizeIP(ip)
             skip ==
                \/ ~ParseIPOk(ip)
                \/ (version = "ipv4" /\ ~IsIPv4(ip))
                \/ (version = "ipv6" /\ ~IsIPv6(ip))
                \/ ~IsIPInCIDR(normalizedIP, cidr)
                \/ isIPUsed(normalizedIP, allocatedList, reservedList)
         IN  preferredPass(Tail(preferredIPs),
                           IF skip THEN allocatedIPs
                           ELSE Append(allocatedIPs, normalizedIP),
                           count, version, cidr, allocatedList, reservedList)

\* The fallback loop of allocateIPsForVersionEnhanced.
RECURSIVE fallbackPass(_, _, _, _, _)
fallbackPass(cidr, allocatedList, reservedList, allocatedIPs, remaining) ==
    IF remaining <= 0 THEN [hang |-> FALSE, ips |-> allocatedIPs]
    ELSE LET next == GetNextAvailableIP(cidr, allocatedList \o allocatedIPs,
                                        reservedList)
         IN  IF next.err = "hang" THEN [hang |-> TRUE, ips |-> allocatedIPs]
             ELSE IF next.err # "nil" THEN [hang |-> FALSE, ips |-> allocatedIPs]
             ELSE fallbackPass(cidr, allocatedList, reservedList,
                               Append(allocatedIPs, next.ip), remaining - 1)

\* allocateIPsForVersionEnhanced returning no address and no error when the
\* sub-zone has no CIDR of the version.
allocateIPsForVersionEnhancedNoCIDRError(subZone, preferredIPs, count, version) ==
    LET cidr == IF version = "ipv4" THEN subZone.v4 ELSE subZone.v6
        allocatedList == IF version = "ipv4" THEN subZone.a4 ELSE subZone.a6
        reservedList == IF version = "ipv4" THEN subZone.r4 ELSE subZone.r6
    IN  IF cidr = EmptyCIDR
            THEN [err |-> "nil", hang |-> FALSE, ips |-> <<>>]
        ELSE LET preferred == preferredPass(preferredIPs, <<>>, count, version,
                                            cidr, allocatedList, reservedList)
                 all == fallbackPass(cidr, allocatedList, reservedList,
                                     preferred, count - Len(preferred))
             IN  [err |-> "nil", hang |-> all.hang, ips |-> all.ips]

allocateIPsForVersionEnhanced(subZone, preferredIPs, count, version) ==
    LET cidr == IF version = "ipv4" THEN subZone.v4 ELSE subZone.v6
        allocatedList == IF version = "ipv4" THEN subZone.a4 ELSE subZone.a6
        reservedList == IF version = "ipv4" THEN subZone.r4 ELSE subZone.r6
    IN  IF cidr = EmptyCIDR
            THEN [err |-> "no CIDR configured", hang |-> FALSE, ips |-> <<>>]
        ELSE LET preferred == preferredPass(preferredIPs, <<>>, count, version,
                                            cidr, allocatedList, reservedList)
                 all == fallbackPass(cidr, allocatedList, reservedList,
                                     preferred, count - Len(preferred))
             IN  [err |-> "nil", hang |-> all.hang, ips |-> all.ips]

updateAllocatedIPs(db, regionName, zoneName, subZoneName, newIPs) ==
    LET split == SplitIPsByVersion(newIPs)
    IN  IF split.err # "nil" THEN [err |-> split.err, db |-> db]
        ELSE IF MatchedCount(db, regionName) = 0
            THEN [err |-> "no matching document found", db |-> db]
        ELSE [err |-> "nil",
              db |-> UpdateSubZones(db, regionName, zoneName, subZoneName,
                                    PushAllocated(split.ipv4s, split.ipv6s))]

\* removeAllocatedIPs pulling from the IPv4 list only.
removeAllocatedIPsIPv4Only(db, regionName, zoneName, subZoneName, ipv4s, ipv6s) ==
    IF MatchedCount(db, regionName) = 0
        THEN [err |-> "no matching document found", db |-> db]
    ELSE [err |-> "nil",
          db |-> UpdateSubZones(db, regionName, zoneName, subZoneName,
                                PullAllocated(ipv4s, <<>>))]

removeAllocatedIPs(db, regionName, zoneName, subZoneName, ipv4s, ipv6s) ==
    IF MatchedCount(db, regionName) = 0
        THEN [err |-> "no matching document found", db |-> db]
    ELSE [err |-> "nil",
          db |-> UpdateSubZones(db, regionName, zoneName, subZoneName,
                                PullAllocated(ipv4s, ipv6s))]

\* addReservedIPs writing the IPv4 list only.
addReservedIPsIPv4Only(db, regionName, zoneName, subZoneName, ips) ==
    LET split == SplitIPsByVersion(ips)
    IN  IF split.err # "nil" THEN [err |-> split.err, db |-> db]
        ELSE IF MatchedCount(db, regionName) = 0
            THEN [err |-> "no matching document found", db |-> db]
        ELSE [err |-> "nil",
              db |-> UpdateSubZones(db, regionName, zoneName, subZoneName,
                                    PushReserved(split.ipv4s, <<>>))]

addReservedIPs(db, regionName, zoneName, subZoneName, ips) ==
    LET split == SplitIPsByVersion(ips)
    IN  IF split.err # "nil" THEN [err |-> split.err, db |-> db]
        ELSE IF MatchedCount(db, regionName) = 0
            THEN [err |-> "no matching document found", db |-> db]
        ELSE [err |-> "nil",
              db |-> UpdateSubZones(db, regionName, zoneName, subZoneName,
                                    PushReserved(split.ipv4s, split.ipv6s))]

\* removeReservedIPs pulling from the IPv4 list only.
removeReservedIPsIPv4Only(db, regionName, zoneName, subZoneName, ips) ==
    LET split == SplitIPsByVersion(ips)
    IN  IF split.err # "nil" THEN [err |-> split.err, db |-> db]
        ELSE IF MatchedCount(db, regionName) = 0
            THEN [err |-> "no matching document found", db |-> db]
        ELSE [err |-> "nil",
              db |-> UpdateSubZones(db, regionName, zoneName, subZoneName,
                                    PullReserved(split.ipv4s, <<>>))]

removeReservedIPs(db, regionName, zoneName, subZoneName, ips) ==
    LET split == SplitIPsByVersion(ips)
    IN  IF split.err # "nil" THEN [err |-> split.err, db |-> db]
        ELSE IF MatchedCount(db, regionName) = 0
            THEN [err |-> "no matching document found", db |-> db]
        ELSE [err |-> "nil",
              db |-> UpdateSubZones(db, regionName, zoneName, subZoneName,
                                    PullReserved(split.ipv4s, split.ipv6s))]

\* AllocateIPsCompute giving IPv4 the larger half of an odd dual-stack count.
AllocateIPsComputeIPv4First(db, req) ==
    LET f == findSubZoneWithHierarchy(db, req.region, req.zone, req.sub)
        subZone == db[f.ri].zones[f.zi].subs[f.si]
        One(version, preferredIPs, count) ==
            allocateIPsForVersionEnhanced(subZone, preferredIPs, count, version)
        Errs(r, msg) == IF r.err # "nil" THEN <<msg>> ELSE <<>>
        ipv4Count == (req.count + 1) \div 2
        ipv6Count == req.count - ipv4Count
        split == SplitIPsByVersion(req.preferred)
        none == [err |-> "nil", hang |-> FALSE, ips |-> <<>>]
        splitFailed == [err |-> "split", hang |-> FALSE, ips |-> <<>>]
        r4 == IF req.version = "ipv4" THEN One("ipv4", req.preferred, req.count)
              ELSE IF req.version = "both" /\ ipv4Count > 0
                  THEN IF split.err # "nil" THEN splitFailed
                       ELSE One("ipv4", split.ipv4s, ipv4Count)
              ELSE none
        r6 == IF req.version = "ipv6" THEN One("ipv6", req.preferred, req.count)
              ELSE IF req.version = "both" /\ ipv6Count > 0
                  THEN IF split.err # "nil" THEN splitFailed
                       ELSE One("ipv6", split.ipv6s, ipv6Count)
              ELSE none
    IN  IF f.err # "nil"
            THEN [found |-> FALSE, hang |-> FALSE, ips |-> <<>>, errors |-> <<>>]
        ELSE [found |-> TRUE,
              hang |-> r4.hang \/ r6.hang,
              ips |-> r4.ips \o r6.ips,
              errors |->
                 (IF r4.err = "split" THEN <<"Failed to split preferred IPs">>
                  ELSE Errs(r4, "IPv4 allocation failed"))
                 \o (IF r6.err = "split" THEN <<"Failed to split preferred IPs">>
                     ELSE Errs(r6, "IPv6 allocation failed"))]

\* What AllocateIPs decides from the sub-zone it read, before it writes:
\* the addresses to allocate and the per-family errors.
AllocateIPsCompute(db, req) ==
    LET f == findSubZoneWithHierarchy(db, req.region, req.zone, req.sub)
        subZone == db[f.ri].zones[f.zi].subs[f.si]
        One(version, preferredIPs, count) ==
            allocateIPsForVersionEnhanced(subZone, preferredIPs, count, version)
        Errs(r, msg) == IF r.err # "nil" THEN <<msg>> ELSE <<>>
        ipv4Count == req.count \div 2
        ipv6Count == req.count - ipv4Count
        split == SplitIPsByVersion(req.preferred)
        none == [err |-> "nil", hang |-> FALSE, ips |-> <<>>]
        splitFailed == [err |-> "split", hang |-> FALSE, ips |-> <<>>]
        r4 == IF req.version = "ipv4" THEN One("ipv4", req.preferred, req.count)
              ELSE IF req.version = "both" /\ ipv4Count > 0
                  THEN IF split.err # "nil" THEN splitFailed
                       ELSE One("ipv4", split.ipv4s, ipv4Count)
              ELSE none
        r6 == IF req.version = "ipv6" THEN One("ipv6", req.preferred, req.count)
              ELSE IF req.version = "both" /\ ipv6Count > 0
                  THEN IF split.err # "nil" THEN splitFailed
                       ELSE One("ipv6", split.ipv6s, ipv6Count)
              ELSE none
    IN  IF f.err # "nil"
            THEN [found |-> FALSE, hang |-> FALSE, ips |-> <<>>, errors |-> <<>>]
        ELSE [found |-> TRUE,
              hang |-> r4.hang \/ r6.hang,
              ips |-> r4.ips \o r6.ips,
              errors |->
                 (IF r4.err = "split" THEN <<"Failed to split preferred IPs">>
                  ELSE Errs(r4, "IPv4 allocation failed"))
                 \o (IF r6.err = "split" THEN <<"Failed to split preferred IPs">>
                     ELSE Errs(r6, "IPv6 allocation failed"))]

Response(op, req, success, ips, failed, errors) ==
    [op |-> op, target |-> <<req.region, req.zone, req.sub>>,
     success |-> success, ips |-> ips, failed |-> failed, errors |-> errors]

\* AllocateIPs writing nothing and answering failure unless every address the
\* request asked for was found.
AllocateIPsCommitAllOrNothing(db, req, c) ==
    LET upd == IF Len(c.ips) = req.count
                  THEN updateAllocatedIPs(db, req.region, req.zone, req.sub, c.ips)
                  ELSE [err |-> "nil", db |-> db]
    IN  IF ~c.found
            THEN [db |-> db,
                  resp |-> Response("Allocate", req, FALSE, <<>>, <<>>,
                                    <<"Failed to find sub-zone">>)]
        ELSE IF upd.err # "nil"
            THEN [db |-> upd.db,
                  resp |-> Response("Allocate", req, FALSE, <<>>, <<>>,
                                    <<"Failed to update database">>)]
        ELSE IF Len(c.ips) < req.count
            THEN [db |-> db,
                  resp |-> Response("Allocate", req, FALSE, <<>>, <<>>, c.errors)]
        ELSE [db |-> upd.db,
              resp |-> Response("Allocate", req, TRUE, c.ips, <<>>, c.errors)]

\* The write of AllocateIPs and the response it returns.
AllocateIPsCommit(db, req, c) ==
    LET upd == IF Len(c.ips) > 0
                  THEN updateAllocatedIPs(db, req.region, req.zone, req.sub, c.ips)
                  ELSE [err |-> "nil", db |-> db]
    IN  IF ~c.found
            THEN [db |-> db,
                  resp |-> Response("Allocate", req, FALSE, <<>>, <<>>,
                                    <<"Failed to find sub-zone">>)]
        ELSE IF upd.err # "nil"
            THEN [db |-> upd.db,
                  resp |-> Response("Allocate", req, FALSE, <<>>, <<>>,
                                    <<"Failed to update database">>)]
        ELSE [db |-> upd.db,
              resp |-> Response("Allocate", req, Len(c.ips) > 0, c.ips, <<>>,
                                c.errors)]

\* The loop of DeallocateIPs over the request's addresses.
RECURSIVE deallocateLoop(_, _, _)
deallocateLoop(ips, subZone, acc) ==
    IF ips = <<>> THEN acc
    ELSE LET ip == Head(ips)
             normalizedIP == NormalizeIP(ip)
             found == IF IsIPv4(normalizedIP)
                         THEN normalizedIP \in SeqToSet(subZone.a4)
                         ELSE IsIPv6(normalizedIP)
                              /\ normalizedIP \in SeqToSet(subZone.a6)
             next ==
                IF normalizedIP = BadIP
                    THEN [acc EXCEPT !.failed = Append(@, ip)]
                ELSE IF validateIPInSubZoneCIDR(normalizedIP, subZone) # "nil"
                    THEN [acc EXCEPT !.failed = Append(@, normalizedIP)]
                ELSE IF found /\ IsIPv4(normalizedIP)
                    THEN [acc EXCEPT !.processed = Append(@, normalizedIP),
                                     !.ipv4s = Append(@, normalizedIP)]
                ELSE IF found
                    THEN [acc EXCEPT !.processed = Append(@, normalizedIP),
                                     !.ipv6s = Append(@, normalizedIP)]
                ELSE [acc EXCEPT !.failed = Append(@, normalizedIP)]
         IN  deallocateLoop(Tail(ips), subZone, next)

EmptyPartition ==
    [found |-> TRUE, processed |-> <<>>, failed |-> <<>>,
     ipv4s |-> <<>>, ipv6s |-> <<>>]

DeallocateIPsCompute(db, req) ==
    LET f == findSubZoneWithHierarchy(db, req.region, req.zone, req.sub)
    IN  IF f.err # "nil" THEN [EmptyPartition EXCEPT !.found = FALSE]
        ELSE deallocateLoop(req.ips, db[f.ri].zones[f.zi].subs[f.si],
                            EmptyPartition)

DeallocateIPsCommit(db, req, c) ==
    LET upd == IF Len(c.processed) > 0
                  THEN removeAllocatedIPs(db, req.region, req.zone, req.sub,
                                          c.ipv4s, c.ipv6s)
                  ELSE [err |-> "nil", db |-> db]
    IN  IF ~c.found
            THEN [db |-> db,
                  resp |-> Response("Deallocate", req, FALSE, <<>>, <<>>,
                                    <<"Failed to find sub-zone">>)]
        ELSE IF upd.err # "nil"
            THEN [db |-> upd.db,
                  resp |-> Response("Deallocate", req, FALSE, <<>>, <<>>,
                                    <<"Failed to update database">>)]
        ELSE [db |-> upd.db,
              resp |-> Response("Deallocate", req, Len(c.processed) > 0,
                                c.processed, c.failed, <<>>)]

\* The loop of ManageReservations over the request's addresses.
RECURSIVE reservationLoop(_, _, _, _)
reservationLoop(ips, subZone, reservationType, acc) ==
    IF ips = <<>> THEN acc
    ELSE LET ip == Head(ips)
             normalizedIP == NormalizeIP(ip)
             free == /\ ~isIPUsed(normalizedIP, subZone.a4, subZone.r4)
                     /\ ~isIPUsed(normalizedIP, subZone.a6, subZone.r6)
             isReserved == IF IsIPv4(normalizedIP)
                              THEN normalizedIP \in SeqToSet(subZone.r4)
                              ELSE IsIPv6(normalizedIP)
                                   /\ normalizedIP \in SeqToSet(subZone.r6)
             accept == IF reservationType = "reserve" THEN free ELSE isReserved
             next ==
                IF normalizedIP = BadIP
                    THEN [acc EXCEPT !.failed = Append(@, ip)]
                ELSE IF validateIPInSubZoneCIDR(normalizedIP, subZone) # "nil"
                    THEN [acc EXCEPT !.failed = Append(@, normalizedIP)]
                ELSE IF accept
                    THEN [acc EXCEPT !.processed = Append(@, normalizedIP)]
                ELSE [acc EXCEPT !.failed = Append(@, normalizedIP)]
         IN  reservationLoop(Tail(ips), subZone, reservationType, next)

ManageReservationsCompute(db, req) ==
    LET f == findSubZoneWithHierarchy(db, req.region, req.zone, req.sub)
    IN  IF f.err # "nil" THEN [EmptyPartition EXCEPT !.found = FALSE]
        ELSE reservationLoop(req.ips, db[f.ri].zones[f.zi].subs[f.si],
                             req.type, EmptyPartition)

ManageReservationsCommit(db, req, c) ==
    LET op == IF req.type = "reserve" THEN "Reserve" ELSE "Unreserve"
        upd == IF Len(c.processed) = 0 THEN [err |-> "nil", db |-> db]
               ELSE IF req.type = "reserve"
                   THEN addReservedIPs(db, req.region, req.zone, req.sub,
                                       c.processed)
               ELSE removeReservedIPs(db, req.region, req.zone, req.sub,
                                      c.processed)
    IN  IF ~c.found
            THEN [db |-> db,
                  resp |-> Response(op, req, FALSE, <<>>, <<>>,
                                    <<"Failed to find sub-zone">>)]
        ELSE IF upd.err # "nil"
            THEN [db |-> upd.db,
                  resp |-> Response(op, req, FALSE, <<>>, <<>>,
                                    <<"Failed to update database">>)]
        ELSE [db |-> upd.db,
              resp |-> Response(op, req, Len(c.processed) > 0,
                                c.processed, c.failed, <<>>)]

\* GetIPStats: the counts it reports for one sub-zone.  An available count
\* is reported only for a version whose total is positive.  Every total of
\* the model is below 2^63, where big.Int.Int64 returns the number itself.
GetIPStats(db, regionName, zoneName, subZoneName) ==
    LET f == findSubZoneWithHierarchy(db, regionName, zoneName, subZoneName)
        subZone == db[f.ri].zones[f.zi].subs[f.si]
        ipv4Total == CountIPsInCIDR(subZone.v4)
        ipv6Total == CountIPsInCIDR(subZone.v6)
    IN  IF f.err # "nil" THEN [err |-> f.err]
        ELSE [err |-> "nil",
              ipv4_total_count |-> ipv4Total,
              ipv6_total_count |-> ipv6Total,
              has_ipv4_available_count |-> ipv4Total > 0,
              ipv4_available_count |->
                  ipv4Total - Len(subZone.a4) - Len(subZone.r4),
              has_ipv6_available_count |-> ipv6Total > 0,
              ipv6_available_count |->
                  ipv6Total - Len(subZone.a6) - Len(subZone.r6)]

---------------------------------------------------------------------------
(* package utils: sibling overlap and the per-level hierarchy checks *)

\* CheckCIDROverlap looking in one direction only: is the first address of
\* the second block inside the first block.
CheckCIDROverlapOneWay(cidr1, cidr2) ==
    IF cidr1 = EmptyCIDR \/ cidr2 = EmptyCIDR THEN FALSE
    ELSE Contains(ParseCIDR(cidr1), NetworkIP(ParseCIDR(cidr2)))

\* CheckCIDROverlap looking only for the ends of the first block inside the
\* second.
CheckCIDROverlapEndsOfFirst(cidr1, cidr2) ==
    IF cidr1 = EmptyCIDR \/ cidr2 = EmptyCIDR THEN FALSE
    ELSE LET net1 == ParseCIDR(cidr1)
             net2 == ParseCIDR(cidr2)
         IN  \/ Contains(net2, NetworkIP(net1))
             \/ Contains(net2, getLastIPInNetwork(net1))

CheckCIDROverlap(cidr1, cidr2) ==
    IF cidr1 = EmptyCIDR \/ cidr2 = EmptyCIDR THEN FALSE
    ELSE LET net1 == ParseCIDR(cidr1)
             net2 == ParseCIDR(cidr2)
         IN  \/ Contains(net1, NetworkIP(net2))
             \/ Contains(net1, getLastIPInNetwork(net2))
             \/ Contains(net2, NetworkIP(net1))
             \/ Contains(net2, getLastIPInNetwork(net1))

ValidateZoneCIDRHierarchy(regionIPv4, regionIPv6, zoneIPv4, zoneIPv6) ==
    IF /\ regionIPv4 # EmptyCIDR /\ zoneIPv4 # EmptyCIDR
       /\ ValidateCIDRHierarchy(regionIPv4, zoneIPv4) # "nil"
        THEN "IPv4 zone CIDR validation failed"
    ELSE IF /\ regionIPv6 # EmptyCIDR /\ zoneIPv6 # EmptyCIDR
            /\ ValidateCIDRHierarchy(regionIPv6, zoneIPv6) # "nil"
        THEN "IPv6 zone CIDR validation failed"
    ELSE "nil"

ValidateSubZoneCIDRHierarchy(zoneIPv4, zoneIPv6, subZoneIPv4, subZoneIPv6) ==
    IF /\ zoneIPv4 # EmptyCIDR /\ subZoneIPv4 # EmptyCIDR
       /\ ValidateCIDRHierarchy(zoneIPv4, subZoneIPv4) # "nil"
        THEN "IPv4 sub-zone CIDR validation failed"
    ELSE IF /\ zoneIPv6 # EmptyCIDR /\ subZoneIPv6 # EmptyCIDR
            /\ ValidateCIDRHierarchy(zoneIPv6, subZoneIPv6) # "nil"
        THEN "IPv6 sub-zone CIDR validation failed"
    ELSE "nil"

---------------------------------------------------------------------------
(* CRUDService, and AllocationService.CreateRegion *)

CRUDResponse(op, success, message) ==
    [op |-> op, target |-> <<"", "", "">>, success |-> success,
     ips |-> <<>>, failed |-> <<>>, errors |-> <<message>>]

SetDocument(req) == [op |-> "$set", req |-> req]

PushSubZone(sub) == [op |-> "$push", sub |-> sub]

PullSubZone(name) == [op |-> "$pull", name |-> name]

\* AllocationHandler.CreateRegion and AllocationService.CreateRegion: the
\* region arrives with its zones and sub-zones; each zone is checked against
\* the region and each sub-zone against its zone, and the document is
\* inserted.
CreateRegion(db, region) ==
    LET ZoneErr(z) ==
            ValidateZoneCIDRHierarchy(region.v4, region.v6, z.v4, z.v6)
        SubErr(z, sz) ==
            ValidateSubZoneCIDRHierarchy(z.v4, z.v6, sz.v4, sz.v6)
        Bad(z) == \/ ZoneErr(z) # "nil"
                  \/ \E j \in 1 .. Len(z.subs) : SubErr(z, z.subs[j]) # "nil"
        bad == {i \in 1 .. Len(region.zones) : Bad(region.zones[i])}
        first == CHOOSE i \in bad : \A k \in bad : i <= k
    IN  IF bad # {}
            THEN [db |-> db,
                  resp |-> CRUDResponse("CreateRegion", FALSE,
                      IF ZoneErr(region.zones[first]) # "nil"
                          THEN "Zone CIDR validation failed"
                          ELSE "Sub-zone CIDR validation failed")]
        ELSE [db |-> Append(db, region),
              resp |-> CRUDResponse("CreateRegion", TRUE,
                                    "Region created successfully")]

CRUDCreateRegion(db, req) ==
    IF \E i \in 1 .. Len(db) : db[i].name = req.name
        THEN [db |-> db,
              resp |-> CRUDResponse("CRUDCreateRegion", FALSE,
                                    "Region with this name already exists")]
    ELSE [db |-> Append(db, Region(req.name, req.v4, req.v6, <<>>)),
          resp |-> CRUDResponse("CRUDCreateRegion", TRUE,
                                "Region created successfully")]

UpdateRegion(db, regionName, req) ==
    LET ri == IndexOfName(db, regionName)
    IN  IF ri = 0
            THEN [db |-> db,
                  resp |-> CRUDResponse("UpdateRegion", FALSE, "Region not found")]
        ELSE [db |-> [db EXCEPT ![ri] = SetFields(@, req)],
              resp |-> CRUDResponse("UpdateRegion", TRUE,
                                    "Region updated successfully")]

DeleteRegion(db, regionName) ==
    LET ri == IndexOfName(db, regionName)
    IN  IF ri = 0
            THEN [db |-> db,
                  resp |-> CRUDResponse("DeleteRegion", FALSE, "Region not found")]
        ELSE [db |-> SubSeq(db, 1, ri - 1) \o SubSeq(db, ri + 1, Len(db)),
              resp |-> CRUDResponse("DeleteRegion", TRUE,
                                    "Region deleted successfully")]

\* zoneConflict without the IPv6 overlap check.
zoneConflictIPv4Only(existingZone, req) ==
    IF existingZone.name = req.name
        THEN "Zone with this name already exists in the region"
    ELSE IF CheckCIDROverlap(req.v4, existingZone.v4)
        THEN "IPv4 CIDR overlaps with existing zone"
    ELSE "nil"

\* The loop of CreateZone over the region's zones: the first conflict found.
zoneConflict(existingZone, req) ==
    IF existingZone.name = req.name
        THEN "Zone with this name already exists in the region"
    ELSE IF CheckCIDROverlap(req.v4, existingZone.v4)
        THEN "IPv4 CIDR overlaps with existing zone"
    ELSE IF CheckCIDROverlap(req.v6, existingZone.v6)
        THEN "IPv6 CIDR overlaps with existing zone"
    ELSE "nil"

CreateZone(db, regionName, req) ==
    LET ri == IndexOfName(db, regionName)
        region == db[ri]
        hierarchy == ValidateZoneCIDRHierarchy(region.v4, region.v6,
                                               req.v4, req.v6)
        bad == {i \in 1 .. Len(region.zones) :
                    zoneConflict(region.zones[i], req) # "nil"}
        first == CHOOSE i \in bad : \A k \in bad : i <= k
    IN  IF ri = 0
            THEN [db |-> db,
                  resp |-> CRUDResponse("CreateZone", FALSE, "Region not found")]
        ELSE IF hierarchy # "nil"
            THEN [db |-> db,
                  resp |-> CRUDResponse("CreateZone", FALSE,
                                        "CIDR validation failed")]
        ELSE IF bad # {}
            THEN [db |-> db,
                  resp |-> CRUDResponse("CreateZone", FALSE,
                                        zoneConflict(region.zones[first], req))]
        ELSE [db |-> [db EXCEPT ![ri].zones =
                         Append(@, Zone(req.name, req.v4, req.v6, <<>>))],
              resp |-> CRUDResponse("CreateZone", TRUE,
                                    "Zone created successfully")]

UpdateZone(db, regionName, zoneName, req) ==
    IF MatchedCount(db, regionName) = 0
        THEN [db |-> db,
              resp |-> CRUDResponse("UpdateZone", FALSE, "Zone not found")]
    ELSE [db |-> UpdateZones(db, regionName, zoneName, SetDocument(req)),
          resp |-> CRUDResponse("UpdateZone", TRUE,
                                "Zone updated successfully")]

DeleteZone(db, regionName, zoneName) ==
    LET ri == IndexOfName(db, regionName)
    IN  IF ri = 0
            THEN [db |-> db,
                  resp |-> CRUDResponse("DeleteZone", FALSE, "Region not found")]
        ELSE [db |-> [db EXCEPT ![ri].zones = PullNamed(@, zoneName)],
              resp |-> CRUDResponse("DeleteZone", TRUE,
                                    "Zone deleted successfully")]

CreateSubZone(db, regionName, zoneName, req) ==
    IF MatchedCount(db, regionName) = 0
        THEN [db |-> db,
              resp |-> CRUDResponse("CreateSubZone", FALSE, "Zone not found")]
    ELSE [db |-> UpdateZones(db, regionName, zoneName,
                             PushSubZone(SubZone(req.name, req.v4, req.v6))),
          resp |-> CRUDResponse("CreateSubZone", TRUE,
                                "Sub-zone created successfully")]

UpdateSubZone(db, regionName, zoneName, subZoneName, req) ==
    IF MatchedCount(db, regionName) = 0
        THEN [db |-> db,
              resp |-> CRUDResponse("UpdateSubZone", FALSE,
                                    "Sub-zone not found")]
    ELSE [db |-> UpdateSubZones(db, regionName, zoneName, subZoneName,
                                SetDocument(req)),
          resp |-> CRUDResponse("UpdateSubZone", TRUE,
                                "Sub-zone updated successfully")]

DeleteSubZone(db, regionName, zoneName, subZoneName) ==
    IF MatchedCount(db, regionName) = 0
        THEN [db |-> db,
              resp |-> CRUDResponse("DeleteSubZone", FALSE,
                                    "Sub-zone not found")]
    ELSE [db |-> UpdateZones(db, regionName, zoneName,
                             PullSubZone(subZoneName)),
          resp |-> CRUDResponse("DeleteSubZone", TRUE,
                                "Sub-zone deleted successfully")]

---------------------------------------------------------------------------
(* Requests *)

FnIdle == [op |-> "none", a |-> EmptyCIDR, b |-> EmptyCIDR, res |-> "nil"]

RECURSIVE SeqsOfLen(_, _)
SeqsOfLen(S, n) ==
    IF n = 0 THEN {<<>>}
    ELSE {Append(s, x) : s \in SeqsOfLen(S, n - 1), x \in S}

SeqsUpTo(S, n) == UNION {SeqsOfLen(S, k) : k \in 0 .. n}

\* The CIDRs of the tree the address operations run on: sub-zone s1 holds
\* four IPv4 addresses (network, two usable, broadcast) and two IPv6
\* addresses, sub-zone s2 the next four IPv4 addresses and no IPv6 CIDR.
RegionV4 == [v |-> 4, ip |-> 0, ones |-> AddrBits - 4]
RegionV6 == [v |-> 6, ip |-> 0, ones |-> AddrBits - 4]
ZoneV4 == [v |-> 4, ip |-> 0, ones |-> AddrBits - 3]
ZoneV6 == [v |-> 6, ip |-> 0, ones |-> AddrBits - 2]
Sub1V4 == [v |-> 4, ip |-> 0, ones |-> AddrBits - 2]
Sub1V6 == [v |-> 6, ip |-> 0, ones |-> AddrBits - 1]
Sub2V4 == [v |-> 4, ip |-> 4, ones |-> AddrBits - 2]

AddrTree ==
    <<Region("r1", RegionV4, RegionV6,
        <<Zone("z1", ZoneV4, ZoneV6,
            <<SubZone("s1", Sub1V4, Sub1V6),
              SubZone("s2", Sub2V4, EmptyCIDR)>>)>>)>>

\* The addresses a request may carry: the IPv4 network address of s1, a
\* usable address in its canonical and in another spelling, the broadcast
\* address, an address of s2, an IPv6 address of s1, and an unparsable string.
IPInputs ==
    {Canon(4, 0), Canon(4, 1), Alt(4, 1), Canon(4, 3), Canon(4, 5),
     Canon(6, 1), BadIP}

AllocationRequests ==
    [region : {"r1"}, zone : {"z1"}, sub : {"s1", "s2"},
     preferred : SeqsUpTo(IPInputs, MaxPreferred),
     count : 1 .. MaxCount, version : {"ipv4", "ipv6", "both"}]

IPListRequests(types) ==
    [region : {"r1"}, zone : {"z1"}, sub : {"s1", "s2"},
     ips : SeqsUpTo(IPInputs, MaxIPs) \ {<<>>}, type : types]

---------------------------------------------------------------------------
(* The operations, run one at a time *)

\* The sum of a sequence of numbers.
Sum(seq) ==
    LET sum[i \in 0 .. Len(seq)] ==
            IF i = 0 THEN 0 ELSE sum[i - 1] + seq[i]
    IN  sum[Len(seq)]

SubZoneEntries(sz) == Len(sz.a4) + Len(sz.a6) + Len(sz.r4) + Len(sz.r6)

ZoneEntries(z) == Sum([k \in 1 .. Len(z.subs) |-> SubZoneEntries(z.subs[k])])

RegionEntries(r) == Sum([j \in 1 .. Len(r.zones) |-> ZoneEntries(r.zones[j])])

TotalEntries(db) == Sum([i \in 1 .. Len(db) |-> RegionEntries(db[i])])

NoResponse ==
    [op |-> "none", target |-> <<"", "", "">>, success |-> FALSE,
     ips |-> <<>>, failed |-> <<>>, errors |-> <<>>]

\* The handlers answer 400 to a request that carries an unparsable address,
\* before the service is called.
InvalidIPIn(ips) == \E i \in 1 .. Len(ips) : NormalizeIP(ips[i]) = BadIP

BadRequest(op, req, message) ==
    Response(op, req, FALSE, <<>>, <<>>, <<message>>)

\* The client sends one request at a time: an operation starts when no
\* response is in flight, runs to completion (it reads the sub-zone, decides,
\* writes and answers), and Respond hands the response to the client.  The
\* stored lists are capped at MaxList entries in total.
Allocate ==
    /\ last = NoResponse
    /\ \E req \in AllocationRequests :
        IF InvalidIPIn(req.preferred)
        THEN /\ last' = BadRequest("Allocate", req,
                                   "Invalid IP address in preferred IPs")
             /\ UNCHANGED <<regions, calls, fn>>
        ELSE \E c \in {AllocateIPsCompute(regions, req)} :
             \E r \in {AllocateIPsCommit(regions, req, c)} :
                 /\ ~c.hang
                 /\ TotalEntries(r.db) <= MaxList
                 /\ regions' = r.db
                 /\ last' = r.resp
                 /\ UNCHANGED <<calls, fn>>

Deallocate ==
    /\ last = NoResponse
    /\ \E req \in IPListRequests({"deallocate"}) :
        IF InvalidIPIn(req.ips)
        THEN /\ last' = BadRequest("Deallocate", req, "Invalid IP address")
             /\ UNCHANGED <<regions, calls, fn>>
        ELSE \E c \in {DeallocateIPsCompute(regions, req)} :
             \E r \in {DeallocateIPsCommit(regions, req, c)} :
                 /\ regions' = r.db
                 /\ last' = r.resp
                 /\ UNCHANGED <<calls, fn>>

Reserve ==
    /\ last = NoResponse
    /\ \E req \in IPListRequests({"reserve"}) :
        IF InvalidIPIn(req.ips)
        THEN /\ last' = BadRequest("Reserve", req, "Invalid IP address")
             /\ UNCHANGED <<regions, calls, fn>>
        ELSE \E c \in {ManageReservationsCompute(regions, req)} :
             \E r \in {ManageReservationsCommit(regions, req, c)} :
                 /\ TotalEntries(r.db) <= MaxList
                 /\ regions' = r.db
                 /\ last' = r.resp
                 /\ UNCHANGED <<calls, fn>>

Unreserve ==
    /\ last = NoResponse
    /\ \E req \in IPListRequests({"unreserve"}) :
        IF InvalidIPIn(req.ips)
        THEN /\ last' = BadRequest("Unreserve", req, "Invalid IP address")
             /\ UNCHANGED <<regions, calls, fn>>
        ELSE \E c \in {ManageReservationsCompute(regions, req)} :
             \E r \in {ManageReservationsCommit(regions, req, c)} :
                 /\ regions' = r.db
                 /\ last' = r.resp
                 /\ UNCHANGED <<calls, fn>>

InitAddr ==
    /\ regions = AddrTree
    /\ calls = <<>>
    /\ last = NoResponse
    /\ fn = FnIdle

Respond ==
    /\ last # NoResponse
    /\ last' = NoResponse
    /\ UNCHANGED <<regions, calls, fn>>

NextAddr == Allocate \/ Deallocate \/ Reserve \/ Unreserve \/ Respond

SpecAddr == InitAddr /\ [][NextAddr]_vars

---------------------------------------------------------------------------
(* The CRUD operations, run one at a time on an empty collection *)

RegionNames == {"r1", "r2"}

ZoneNames == {"z1", "z2"}

SubZoneNames == {"s1", "s2"}

\* The CIDRs a CRUD request may carry: a block and its two halves.  The
\* halves are disjoint and inside the block; the block overlaps both and is
\* inside neither.  An update request may leave the CIDR out, and so may the
\* creation of a region.  The IPv6 fields stay empty.
TreeV4 == {ZoneV4, Sub1V4, Sub2V4}

RegionRequests ==
    [name : RegionNames, v4 : TreeV4 \cup {EmptyCIDR}, v6 : {EmptyCIDR}]

CreateRequests(names) == [name : names, v4 : TreeV4, v6 : {EmptyCIDR}]

UpdateRequests(names) ==
    [name : names \cup {""}, v4 : TreeV4 \cup {EmptyCIDR}, v6 : {EmptyCIDR}]

\* The zones a CreateRegion request may embed.
EmbeddedZones ==
    {Zone("z1", c, EmptyCIDR, subs) :
        c \in {ZoneV4, Sub1V4},
        subs \in {<<>>, <<SubZone("s1", Sub2V4, EmptyCIDR)>>}}

EmbeddedRegions ==
    {Region(n, c, EmptyCIDR, zones) :
        n \in RegionNames, c \in {EmptyCIDR, ZoneV4, Sub1V4},
        zones \in SeqsUpTo(EmbeddedZones, 2)}

ZoneNodes(z) == 1 + Len(z.subs)

RegionNodes(r) == 1 + Sum([j \in 1 .. Len(r.zones) |-> ZoneNodes(r.zones[j])])

Nodes(db) == Sum([i \in 1 .. Len(db) |-> RegionNodes(db[i])])

\* A CRUD operation answers a request as the address operations do; the
\* collection grows to at most MaxNodes regions, zones and sub-zones in total.
Done(r) ==
    /\ Nodes(r.db) <= (IF Nodes(regions) > MaxNodes THEN Nodes(regions)
                        ELSE MaxNodes)
    /\ regions' = r.db
    /\ last' = r.resp
    /\ UNCHANGED <<calls, fn>>

DoCreateRegion ==
    /\ last = NoResponse
    /\ \E region \in EmbeddedRegions :
           Done(CreateRegion(regions, region))

\* CRUDService.CreateRegion: an exported entry point of the service that no
\* route of the API calls.
DoCRUDCreateRegion ==
    /\ last = NoResponse
    /\ \E req \in RegionRequests :
           Done(CRUDCreateRegion(regions, req))

DoUpdateRegion ==
    /\ last = NoResponse
    /\ \E regionName \in RegionNames, req \in UpdateRequests(RegionNames) :
           Done(UpdateRegion(regions, regionName, req))

DoDeleteRegion ==
    /\ last = NoResponse
    /\ \E regionName \in RegionNames :
           Done(DeleteRegion(regions, regionName))

DoCreateZone ==
    /\ last = NoResponse
    /\ \E regionName \in RegionNames, req \in CreateRequests(ZoneNames) :
           Done(CreateZone(regions, regionName, req))

DoUpdateZone ==
    /\ last = NoResponse
    /\ \E regionName \in RegionNames, zoneName \in ZoneNames,
          req \in UpdateRequests(ZoneNames) :
           Done(UpdateZone(regions, regionName, zoneName, req))

DoDeleteZone ==
    /\ last = NoResponse
    /\ \E regionName \in RegionNames, zoneName \in ZoneNames :
           Done(DeleteZone(regions, regionName, zoneName))

DoCreateSubZone ==
    /\ last = NoResponse
    /\ \E regionName \in RegionNames, zoneName \in ZoneNames,
          req \in CreateRequests(SubZoneNames) :
           Done(CreateSubZone(regions, regionName, zoneName, req))

DoUpdateSubZone ==
    /\ last = NoResponse
    /\ \E regionName \in RegionNames, zoneName \in ZoneNames,
          subZoneName \in SubZoneNames, req \in UpdateRequests(SubZoneNames) :
           Done(UpdateSubZone(regions, regionName, zoneName, subZoneName, req))

DoDeleteSubZone ==
    /\ last = NoResponse
    /\ \E regionName \in RegionNames, zoneName \in ZoneNames,
          subZoneName \in SubZoneNames :
           Done(DeleteSubZone(regions, regionName, zoneName, subZoneName))

InitTree ==
    /\ regions = <<>>
    /\ calls = <<>>
    /\ last = NoResponse
    /\ fn = FnIdle

NextTree ==
    \/ DoCreateRegion \/ DoCRUDCreateRegion \/ DoUpdateRegion \/ DoDeleteRegion
    \/ DoCreateZone \/ DoUpdateZone \/ DoDeleteZone
    \/ DoCreateSubZone \/ DoUpdateSubZone \/ DoDeleteSubZone
    \/ Respond

SpecTree == InitTree /\ [][NextTree]_vars

---------------------------------------------------------------------------
(* The address operations and UpdateSubZone, run one at a time *)

NextAddrUpdate ==
    \/ Allocate \/ Deallocate \/ Reserve \/ Unreserve
    \/ DoUpdateSubZone
    \/ Respond

SpecAddrUpdate == InitAddr /\ [][NextAddrUpdate]_vars

---------------------------------------------------------------------------
(* The address operations, run concurrently *)

\* A call in flight: what it read and decided, which calls had read and not
\* yet written when it read, and, once it has written, its response.
Call(op, req, c) ==
    [op |-> op, req |-> req, c |-> c, pc |-> "read", resp |-> NoResponse,
     inflight |-> {k \in 1 .. Len(calls) : calls[k].pc = "read"}]

\* A call the handler answered 400 without calling the service.
Rejected(op, req, message) ==
    [op |-> op, req |-> req, c |-> "none", pc |-> "done",
     resp |-> BadRequest(op, req, message), inflight |-> {}]

\* A handler's read: FindOne through findSubZoneWithHierarchy, and the
\* decision taken from that snapshot.
AllocateRead ==
    /\ Len(calls) < MaxCalls
    /\ \E req \in AllocationRequests :
        IF InvalidIPIn(req.preferred)
        THEN /\ calls' = Append(calls,
                              Rejected("Allocate", req,
                                       "Invalid IP address in preferred IPs"))
             /\ UNCHANGED <<regions, last, fn>>
        ELSE \E c \in {AllocateIPsCompute(regions, req)} :
                 /\ ~c.hang
                 /\ calls' = Append(calls, Call("Allocate", req, c))
                 /\ UNCHANGED <<regions, last, fn>>

DeallocateRead ==
    /\ Len(calls) < MaxCalls
    /\ \E req \in IPListRequests({"deallocate"}) :
           /\ calls' = Append(calls,
                  IF InvalidIPIn(req.ips)
                  THEN Rejected("Deallocate", req, "Invalid IP address")
                  ELSE Call("Deallocate", req,
                            DeallocateIPsCompute(regions, req)))
           /\ UNCHANGED <<regions, last, fn>>

ReservationRead ==
    /\ Len(calls) < MaxCalls
    /\ \E req \in IPListRequests({"reserve", "unreserve"}) :
           /\ calls' = Append(calls,
                  IF InvalidIPIn(req.ips)
                  THEN Rejected("ManageReservations", req, "Invalid IP address")
                  ELSE Call("ManageReservations", req,
                            ManageReservationsCompute(regions, req)))
           /\ UNCHANGED <<regions, last, fn>>

\* A handler's write: UpdateOne on the collection as it is now, with what
\* the call decided when it read.
Commit(i, r) ==
    /\ regions' = r.db
    /\ calls' = [calls EXCEPT ![i].pc = "done", ![i].resp = r.resp]
    /\ UNCHANGED <<last, fn>>

AllocateWrite ==
    \E i \in 1 .. Len(calls) :
        /\ calls[i].pc = "read"
        /\ calls[i].op = "Allocate"
        /\ Commit(i, AllocateIPsCommit(regions, calls[i].req, calls[i].c))

DeallocateWrite ==
    \E i \in 1 .. Len(calls) :
        /\ calls[i].pc = "read"
        /\ calls[i].op = "Deallocate"
        /\ Commit(i, DeallocateIPsCommit(regions, calls[i].req, calls[i].c))

ReservationWrite ==
    \E i \in 1 .. Len(calls) :
        /\ calls[i].pc = "read"
        /\ calls[i].op = "ManageReservations"
        /\ Commit(i, ManageReservationsCommit(regions, calls[i].req, calls[i].c))

NextConc ==
    \/ AllocateRead \/ DeallocateRead \/ ReservationRead
    \/ AllocateWrite \/ DeallocateWrite \/ ReservationWrite

SpecConc == InitAddr /\ [][NextConc]_vars

---------------------------------------------------------------------------
(* Allocate run concurrently with the CRUD operations on its region *)

\* One Allocate is in flight, and one CRUD operation, a single UpdateOne,
\* takes effect on the tree between the read of the Allocate and its write.
AllocateReadAlone == calls = <<>> /\ AllocateRead

BetweenReadAndWrite ==
    /\ regions = AddrTree
    /\ \E i \in 1 .. Len(calls) : calls[i].pc = "read"

DeleteSubZoneInBetween == BetweenReadAndWrite /\ DoDeleteSubZone

DeleteZoneInBetween == BetweenReadAndWrite /\ DoDeleteZone

UpdateZoneInBetween == BetweenReadAndWrite /\ DoUpdateZone

UpdateSubZoneInBetween == BetweenReadAndWrite /\ DoUpdateSubZone

NextConcTree ==
    \/ AllocateReadAlone \/ AllocateWrite
    \/ DeleteSubZoneInBetween \/ DeleteZoneInBetween
    \/ UpdateZoneInBetween \/ UpdateSubZoneInBetween
    \/ Respond

SpecConcTree == InitAddr /\ [][NextConcTree]_vars

---------------------------------------------------------------------------
(* The service operations applied once to a sub-zone drawn from bounded sets *)

\* The addresses of set S in ascending order, at most k of them.
RECURSIVE Lowest(_, _)
Lowest(S, k) ==
    IF k <= 0 \/ S = {} THEN <<>>
    ELSE LET m == CHOOSE x \in S : \A y \in S : x <= y
         IN  <<m>> \o Lowest(S \ {m}, k - 1)

\* The addresses GetNextAvailableIP can return for a CIDR.
UsableIn(cidr) ==
    IF cidr = EmptyCIDR THEN {}
    ELSE {a \in AddrSpace :
            /\ Contains(ParseCIDR(cidr), Canon(cidr.v, a))
            /\ ~isNetworkOrBroadcast(Canon(cidr.v, a), ParseCIDR(cidr))}

\* The sub-zone the operations are applied to: s1 with both CIDRs (two usable
\* IPv4 addresses, three usable IPv6 addresses), s1 with no IPv6 CIDR, s1 with
\* no IPv4 CIDR, and s1 with CIDRs wide enough to serve the largest request
\* of each family.
SubZoneShapes ==
    {SubZone("s1", Sub1V4, ZoneV6), SubZone("s1", Sub1V4, EmptyCIDR),
     SubZone("s1", EmptyCIDR, ZoneV6), SubZone("s1", RegionV4, RegionV6)}

Slots(sz) ==
    IF sz.v4 = RegionV4 THEN {}
    ELSE {<<4, a>> : a \in UsableIn(sz.v4)} \cup {<<6, a>> : a \in UsableIn(sz.v6)}

\* The states of a sub-zone: each usable address is free, allocated,
\* reserved, or (as two concurrent calls can leave it) both; at most MaxHeld
\* of them are not free, and the lists hold the canonical strings in
\* ascending order.
Holdings(sz) ==
    {h \in [Slots(sz) -> {"free", "allocated", "reserved", "both"}] :
        Cardinality({x \in Slots(sz) : h[x] # "free"}) <= MaxHeld}

HeldList(sz, h, v, status) ==
    LET S == {x[2] : x \in {y \in Slots(sz) : y[1] = v /\ h[y] \in {status, "both"}}}
        asc == Lowest(S, Cardinality(S))
    IN  [i \in 1 .. Len(asc) |-> Canon(v, asc[i])]

StatesOf(sz) ==
    {[sz EXCEPT !.a4 = HeldList(sz, h, 4, "allocated"),
                !.a6 = HeldList(sz, h, 6, "allocated"),
                !.r4 = HeldList(sz, h, 4, "reserved"),
                !.r6 = HeldList(sz, h, 6, "reserved")] : h \in Holdings(sz)}

SubZoneStates == UNION {StatesOf(sz) : sz \in SubZoneShapes}

ServiceTree(sz) ==
    <<Region("r1", RegionV4, RegionV6, <<Zone("z1", RegionV4, RegionV6, <<sz>>)>>)>>

\* The addresses a service request may carry: two usable IPv4 addresses of
\* s1 (one in a non-canonical spelling), an IPv4 address outside s1, a usable
\* IPv6 address and an unparsable string.
ServiceIPs == {Canon(4, 1), Alt(4, 2), Canon(4, 5), Canon(6, 1), BadIP}

ServiceAllocationRequests ==
    [region : {"r1"}, zone : {"z1"}, sub : {"s1"},
     preferred : SeqsUpTo(ServiceIPs, MaxWanted),
     count : 1 .. MaxCount, version : {"ipv4", "ipv6", "both"}]

\* Dual-stack requests with no preferred addresses, for every count the
\* request validation admits.
DualStackRequests ==
    [region : {"r1"}, zone : {"z1"}, sub : {"s1"}, preferred : {<<>>},
     count : 1 .. MaxRequestCount, version : {"both"}]

ServiceIPListRequests ==
    [region : {"r1"}, zone : {"z1"}, sub : {"s1"},
     ips : SeqsUpTo(ServiceIPs, MaxAddresses) \ {<<>>},
     type : {"deallocate", "reserve", "unreserve"}]

\* What a service call leaves in fn: the operation, its request and the
\* collection it read.
Called(op, req, db) == [op |-> op, a |-> req, b |-> db, res |-> "nil"]

AllocateIPs ==
    /\ fn = FnIdle
    /\ \E req \in ServiceAllocationRequests \cup DualStackRequests :
       \E c \in {AllocateIPsCompute(regions, req)} :
       \E r \in {AllocateIPsCommit(regions, req, c)} :
           /\ ~c.hang
           /\ regions' = r.db
           /\ last' = r.resp
           /\ fn' = Called("AllocateIPs", req, regions)
           /\ UNCHANGED calls

DeallocateIPs ==
    /\ fn = FnIdle
    /\ \E req \in {q \in ServiceIPListRequests : q.type = "deallocate"} :
       \E c \in {DeallocateIPsCompute(regions, req)} :
       \E r \in {DeallocateIPsCommit(regions, req, c)} :
           /\ regions' = r.db
           /\ last' = r.resp
           /\ fn' = Called("DeallocateIPs", req, regions)
           /\ UNCHANGED calls

ManageReservations ==
    /\ fn = FnIdle
    /\ \E req \in {q \in ServiceIPListRequests : q.type # "deallocate"} :
       \E c \in {ManageReservationsCompute(regions, req)} :
       \E r \in {ManageReservationsCommit(regions, req, c)} :
           /\ regions' = r.db
           /\ last' = r.resp
           /\ fn' = Called("ManageReservations", req, regions)
           /\ UNCHANGED calls

\* Two calls one after the other on the same address: reserve it and
\* unreserve it, or allocate it as the only preferred address and deallocate
\* it.  fn.res tells whether the first call answered success.
IPListRequest(x, type) ==
    [region |-> "r1", zone |-> "z1", sub |-> "s1", ips |-> <<x>>, type |-> type]

CalledTwice(op, req, db, first) ==
    [op |-> op, a |-> req, b |-> db,
     res |-> IF first.success THEN "true" ELSE "false"]

ReserveThenUnreserve ==
    /\ fn = FnIdle
    /\ \E x \in ServiceIPs :
       \E req \in {IPListRequest(x, "reserve")} :
       \E r1 \in {ManageReservationsCommit(regions, req,
                       ManageReservationsCompute(regions, req))} :
       \E back \in {IPListRequest(x, "unreserve")} :
       \E r2 \in {ManageReservationsCommit(r1.db, back,
                       ManageReservationsCompute(r1.db, back))} :
           /\ regions' = r2.db
           /\ last' = r2.resp
           /\ fn' = CalledTwice("ReserveThenUnreserve", req, regions, r1.resp)
           /\ UNCHANGED calls

AllocateThenDeallocate ==
    /\ fn = FnIdle
    /\ \E x \in ServiceIPs, version \in {"ipv4", "ipv6", "both"} :
       \E req \in {[region |-> "r1", zone |-> "z1", sub |-> "s1",
                    preferred |-> <<x>>, count |-> 1, version |-> version]} :
       \E c \in {AllocateIPsCompute(regions, req)} :
       \E r1 \in {AllocateIPsCommit(regions, req, c)} :
       \E back \in {IPListRequest(x, "deallocate")} :
       \E r2 \in {DeallocateIPsCommit(r1.db, back,
                       DeallocateIPsCompute(r1.db, back))} :
           /\ ~c.hang
           /\ regions' = r2.db
           /\ last' = r2.resp
           /\ fn' = CalledTwice("AllocateThenDeallocate", req, regions, r1.resp)
           /\ UNCHANGED calls

InitService ==
    /\ regions \in {ServiceTree(sz) : sz \in SubZoneStates}
    /\ calls = <<>>
    /\ last = NoResponse
    /\ fn = FnIdle

NextService ==
    \/ AllocateIPs
    \/ DeallocateIPs
    \/ ManageReservations
    \/ ReserveThenUnreserve
    \/ AllocateThenDeallocate

SpecService == InitService /\ [][NextService]_vars

---------------------------------------------------------------------------
(* The creations applied once to a region drawn from bounded sets *)

\* Further blocks: the third quarter-block of the zone size in IPv4, the
\* second half of ZoneV6, and an IPv6 block outside ZoneV6.
Sub3V4 == [v |-> 4, ip |-> 8, ones |-> AddrBits - 2]
Sub2V6 == [v |-> 6, ip |-> 2, ones |-> AddrBits - 1]
FarV6 == [v |-> 6, ip |-> 4, ones |-> AddrBits - 1]

\* The zones a region may hold when CreateZone is called.
ExistingZones ==
    {Zone("z1", ZoneV4, EmptyCIDR, <<>>), Zone("z2", Sub1V4, Sub1V6, <<>>),
     Zone("z2", Sub3V4, ZoneV6, <<>>)}

CreateZoneRegions ==
    {Region("r1", c4, c6, zones) :
        c4 \in {EmptyCIDR, RegionV4, ZoneV4}, c6 \in {EmptyCIDR, RegionV6, ZoneV6},
        zones \in SeqsUpTo(ExistingZones, MaxZones)}

CreateZoneRequests ==
    [name : {"z1", "z3"}, v4 : {EmptyCIDR, ZoneV4, Sub1V4, Sub2V4, Sub3V4},
     v6 : {EmptyCIDR, ZoneV6, Sub1V6, Sub2V6, FarV6}]

CreateZoneOnce ==
    /\ fn = FnIdle
    /\ \E regionName \in RegionNames, req \in CreateZoneRequests :
       \E r \in {CreateZone(regions, regionName, req)} :
           /\ regions' = r.db
           /\ last' = r.resp
           /\ fn' = [Called("CreateZone", req, regions) EXCEPT !.res = regionName]
           /\ UNCHANGED calls

\* The sub-zones a POST /regions body may embed: the handler binds the body
\* to models.Region, whose sub-zones carry the four address lists.
EmbeddedSubZones ==
    {[SubZone("s1", Sub1V4, Sub1V6) EXCEPT !.a4 = a4, !.a6 = a6, !.r4 = r4] :
        a4 \in {<<>>, <<Canon(4, 1)>>}, a6 \in {<<>>, <<Canon(6, 1)>>},
        r4 \in {<<>>, <<Canon(4, 2)>>}}

RegionBodies ==
    {Region(n, RegionV4, RegionV6, <<Zone("z1", ZoneV4, ZoneV6, subs)>>) :
        n \in RegionNames, subs \in SeqsUpTo(EmbeddedSubZones, 1)}

CreateRegionOnce ==
    /\ fn = FnIdle
    /\ \E region \in RegionBodies :
       \E r \in {CreateRegion(regions, region)} :
           /\ regions' = r.db
           /\ last' = r.resp
           /\ fn' = Called("CreateRegion", region, regions)
           /\ UNCHANGED calls

CreateSubZoneOnce ==
    /\ fn = FnIdle
    /\ \E regionName \in RegionNames, zoneName \in ZoneNames :
       \E req \in [name : SubZoneNames, v4 : {Sub1V4, EmptyCIDR}, v6 : {Sub1V6, EmptyCIDR}] :
       \E r \in {CreateSubZone(regions, regionName, zoneName, req)} :
           /\ regions' = r.db
           /\ last' = r.resp
           /\ fn' = Called("CreateSubZone", req, regions)
           /\ UNCHANGED calls

InitCreate ==
    /\ regions \in {<<region>> : region \in CreateZoneRegions}
    /\ calls = <<>>
    /\ last = NoResponse
    /\ fn = FnIdle

NextCreate == CreateZoneOnce \/ CreateRegionOnce \/ CreateSubZoneOnce

SpecCreate == InitCreate /\ [][NextCreate]_vars

---------------------------------------------------------------------------
(* GetNextAvailableIP called repeatedly, each result joining the used list *)

\* The lists a scan starts from: nothing, or one or two low addresses of the
\* block's family.
ScanInputs ==
    {[cidr |-> c, allocated |-> al, reserved |-> re] :
        c \in CIDRStrings \ {EmptyCIDR},
        al \in {<<>>, <<Canon(4, 1)>>, <<Canon(6, 0)>>},
        re \in {<<>>, <<Canon(4, 2)>>, <<Canon(6, 1)>>}}

Scanners == {"GetNextAvailableIP", "GetNextAvailableIPFirstLast"}

\* One call of the scanner named op.
Scan(op, cidr, allocated, reserved) ==
    IF op = "GetNextAvailableIP" THEN GetNextAvailableIP(cidr, allocated, reserved)
    ELSE GetNextAvailableIPFirstLast(cidr, allocated, reserved)

\* fn.a holds the CIDR and the lists the scan started from, fn.b the
\* addresses returned so far, and fn.res the error that ended the scan.
ScanStart ==
    /\ fn.op = "none"
    /\ \E op \in Scanners, in \in ScanInputs :
           fn' = [op |-> op, a |-> in, b |-> <<>>, res |-> "nil"]
    /\ UNCHANGED <<regions, calls, last>>

ScanNext ==
    /\ fn.op \in Scanners
    /\ fn.res = "nil"
    /\ \E r \in {Scan(fn.op, fn.a.cidr, fn.a.allocated \o fn.b,
                        fn.a.reserved)} :
           /\ r.err # "hang"
           /\ fn' = IF r.err = "nil" THEN [fn EXCEPT !.b = Append(@, r.ip)]
                     ELSE [fn EXCEPT !.res = r.err]
    /\ UNCHANGED <<regions, calls, last>>

\* The call never returns: the scan stays where it is.
ScanHangs ==
    /\ fn.op \in Scanners
    /\ fn.res = "nil"
    /\ Scan(fn.op, fn.a.cidr, fn.a.allocated \o fn.b, fn.a.reserved).err = "hang"
    /\ fn' = [fn EXCEPT !.res = "hang"]
    /\ UNCHANGED <<regions, calls, last>>

\* GetAvailableIPsInRange applied once, for every limit up to the size of
\* the address space.
ApplyGetAvailableIPsInRange ==
    /\ fn.op = "none"
    /\ \E in \in ScanInputs, limit \in 0 .. 2^AddrBits :
       \E r \in {GetAvailableIPsInRange(in.cidr, in.allocated, in.reserved,
                                        limit)} :
           fn' = [op |-> "GetAvailableIPsInRange",
                  a |-> [cidr |-> in.cidr, allocated |-> in.allocated,
                         reserved |-> in.reserved, limit |-> limit],
                  b |-> r.ips, res |-> IF r.hang THEN "hang" ELSE "nil"]
    /\ UNCHANGED <<regions, calls, last>>

InitScan ==
    /\ regions = <<>>
    /\ calls = <<>>
    /\ last = NoResponse
    /\ fn = FnIdle

NextScan == ScanStart \/ ScanNext \/ ScanHangs \/ ApplyGetAvailableIPsInRange

SpecScan == InitScan /\ [][NextScan]_vars

---------------------------------------------------------------------------
(* The pure functions applied to inputs drawn from the bounded sets *)

HierarchyCIDRStrings == CIDRStrings \cup MappedCIDRStrings

ApplyValidateCIDRHierarchy ==
    /\ fn = FnIdle
    /\ \E p \in HierarchyCIDRStrings, c \in HierarchyCIDRStrings :
           fn' = [op |-> "ValidateCIDRHierarchy", a |-> p, b |-> c,
                  res |-> ValidateCIDRHierarchy(p, c)]
    /\ UNCHANGED <<regions, calls, last>>

ApplyValidateCIDRHierarchyNetworkOnly ==
    /\ fn = FnIdle
    /\ \E p \in HierarchyCIDRStrings, c \in HierarchyCIDRStrings :
           fn' = [op |-> "ValidateCIDRHierarchyNetworkOnly", a |-> p, b |-> c,
                  res |-> ValidateCIDRHierarchyNetworkOnly(p, c)]
    /\ UNCHANGED <<regions, calls, last>>

ApplyCheckCIDROverlap ==
    /\ fn = FnIdle
    /\ \E c1 \in CIDRStrings, c2 \in CIDRStrings :
           fn' = [op |-> "CheckCIDROverlap", a |-> c1, b |-> c2,
                  res |-> IF CheckCIDROverlap(c1, c2) THEN "true" ELSE "false"]
    /\ UNCHANGED <<regions, calls, last>>

ApplyCountIPsInCIDR ==
    /\ fn = FnIdle
    /\ \E c \in CIDRStrings :
           fn' = [op |-> "CountIPsInCIDR", a |-> c, b |-> EmptyCIDR,
                  res |-> CountIPsInCIDR(c)]
    /\ UNCHANGED <<regions, calls, last>>

InitFn ==
    /\ regions = <<>>
    /\ calls = <<>>
    /\ last = NoResponse
    /\ fn = FnIdle

NextFn ==
    \/ ApplyValidateCIDRHierarchy
    \/ ApplyValidateCIDRHierarchyNetworkOnly
    \/ ApplyCheckCIDROverlap
    \/ ApplyCountIPsInCIDR

SpecFn == InitFn /\ [][NextFn]_vars

---------------------------------------------------------------------------
(* Claims about the pure functions *)

Block(c) ==
    {a \in AddrSpace :
        a \div HostSize(maskOnes(c)) = c.ip \div HostSize(maskOnes(c))}

ChildInsideParent(p, c) ==
    /\ To4(p.v) = To4(c.v)
    /\ Block(c) \subseteq Block(p)
    /\ c.ones >= p.ones

\* C10: for well-formed parent and child CIDRs ValidateCIDRHierarchy returns
\* no error iff every address of the child block lies inside the parent block
\* and the child's prefix length is at least the parent's; with either CIDR
\* empty it returns no error.
C10_ValidateCIDRHierarchyIff ==
    fn.op = "ValidateCIDRHierarchy" =>
        IF fn.a = EmptyCIDR \/ fn.b = EmptyCIDR
            THEN fn.res = "nil"
            ELSE (fn.res = "nil") <=> ChildInsideParent(fn.a, fn.b)

\* C10 witness: a child whose first address is inside the parent and whose
\* last address is not has been rejected.
C10_Witness ==
    /\ fn.op = "ValidateCIDRHierarchy"
    /\ fn.a # EmptyCIDR /\ fn.b # EmptyCIDR
    /\ fn.a.v = fn.b.v
    /\ fn.b.ip \in Block(fn.a)
    /\ ~(Block(fn.b) \subseteq Block(fn.a))
    /\ fn.res # "nil"

ShareAnAddress(c1, c2) == Block(c1) \cap Block(c2) # {}

EndInside(c1, c2) == c1.ip \in Block(c2) \/ (c1.ip + HostSize(c1.ones) - 1) \in Block(c2)

\* C11: for two well-formed CIDRs of the same version CheckCIDROverlap returns
\* true exactly when the two blocks share at least one address, which is
\* exactly when the first or the last address of one block lies inside the
\* other; it returns false when either CIDR is empty.
C11_CheckCIDROverlapIff ==
    fn.op = "CheckCIDROverlap" =>
        IF fn.a = EmptyCIDR \/ fn.b = EmptyCIDR
            THEN fn.res = "false"
        ELSE fn.a.v = fn.b.v =>
            /\ (fn.res = "true") <=> ShareAnAddress(fn.a, fn.b)
            /\ (fn.res = "true") <=>
                   (EndInside(ParseCIDR(fn.a), fn.b) \/ EndInside(ParseCIDR(fn.b), fn.a))

\* C11 witness: the second block strictly contains the first and starts at
\* another address, and the overlap has been reported.
C11_Witness ==
    /\ fn.op = "CheckCIDROverlap"
    /\ fn.a # EmptyCIDR /\ fn.b # EmptyCIDR
    /\ fn.a.v = fn.b.v
    /\ Block(fn.a) \subseteq Block(fn.b)
    /\ ParseCIDR(fn.a).ip # ParseCIDR(fn.b).ip
    /\ fn.res = "true"

\* C27: CheckCIDROverlap(a, b) equals CheckCIDROverlap(b, a) for all pairs
\* of CIDRs, pairs of different IP versions and pairs where one block
\* contains the other included.
C27_CheckCIDROverlapSymmetric ==
    fn.op = "CheckCIDROverlap" =>
        ((fn.res = "true") <=> CheckCIDROverlap(fn.b, fn.a))

\* C27 witness: the first block strictly contains the second, which starts
\* at another address, and the overlap has been reported.
C27_Witness ==
    /\ fn.op = "CheckCIDROverlap"
    /\ fn.a # EmptyCIDR /\ fn.b # EmptyCIDR
    /\ fn.a.v = fn.b.v
    /\ Block(fn.b) \subseteq Block(fn.a) /\ Block(fn.b) # Block(fn.a)
    /\ ParseCIDR(fn.a).ip # ParseCIDR(fn.b).ip
    /\ fn.res = "true"

\* C26: CountIPsInCIDR returns 2^hostBits - 2 for an IPv4 block with
\* hostBits > 1, and 2^hostBits, the number of addresses of the block, for an
\* IPv4 block with hostBits of 1 or 0 and for every IPv6 block.
C26_CountIPsInCIDR ==
    (fn.op = "CountIPsInCIDR" /\ fn.a # EmptyCIDR) =>
        LET hostBits == AddrBits - fn.a.ones
        IN  IF fn.a.v = 4 /\ hostBits > 1
                THEN /\ fn.res = 2^hostBits - 2
                     /\ fn.res = Cardinality(Block(fn.a)) - 2
            ELSE /\ fn.res = 2^hostBits
                 /\ fn.res = Cardinality(Block(fn.a))

\* C26 witness: an IPv6 block of more than two addresses has been counted
\* in full.
C26_Witness ==
    /\ fn.op = "CountIPsInCIDR"
    /\ fn.a.v = 6 /\ fn.a.ones = AddrBits - 3
    /\ fn.res = 8

---------------------------------------------------------------------------
(* Claims about the service operations applied once *)

\* The sub-zone a service call read, the sub-zone it left, and its request.
Before == fn.b[1].zones[1].subs[1]

After == regions[1].zones[1].subs[1]

Request == fn.a

CIDROf(sz, v) == IF v = 4 THEN sz.v4 ELSE sz.v6

AllocatedOf(sz, v) == {x.a : x \in SeqToSet(IF v = 4 THEN sz.a4 ELSE sz.a6)}

ReservedOf(sz, v) == {x.a : x \in SeqToSet(IF v = 4 THEN sz.r4 ELSE sz.r6)}

\* The lowest and the highest address of a CIDR block.
FirstOf(c) == (c.ip \div HostSize(c.ones)) * HostSize(c.ones)

LastOf(c) == FirstOf(c) + HostSize(c.ones) - 1

InRange(sz, v, a) ==
    /\ CIDROf(sz, v) # EmptyCIDR
    /\ FirstOf(CIDROf(sz, v)) <= a /\ a <= LastOf(CIDROf(sz, v))

HeldOf(sz, v) == AllocatedOf(sz, v) \cup ReservedOf(sz, v)

IsFree(sz, v, a) == InRange(sz, v, a) /\ a \notin HeldOf(sz, v)

\* The part of the count a family is asked for.
Target(req, v) ==
    IF req.version = "both"
        THEN IF v = 4 THEN req.count \div 2 ELSE req.count - req.count \div 2
    ELSE IF (req.version = "ipv4") = (v = 4) THEN req.count
    ELSE 0

OfFamily(ips, v) == LET Is(x) == x.v = v IN SelectSeq(ips, Is)

\* The preferred addresses of family v that are in range and Free in sz, in
\* the caller's order, cut at n.
AcceptedPreferred(sz, v, preferred, n) ==
    LET Ok(x) == x.v = v /\ IsFree(sz, v, x.a)
        ok == SelectSeq(preferred, Ok)
    IN  [i \in 1 .. (IF Len(ok) < n THEN Len(ok) ELSE n) |-> Canon(v, ok[i].a)]

\* The free addresses of the block other than its first and its last one.
InteriorFree(sz, v) ==
    IF CIDROf(sz, v) = EmptyCIDR THEN {}
    ELSE ((FirstOf(CIDROf(sz, v)) + 1) .. (LastOf(CIDROf(sz, v)) - 1)) \ HeldOf(sz, v)

Ascending(ips) == \A i \in 1 .. Len(ips) - 1 : ips[i].a < ips[i + 1].a

PreferredThenFallback(sz, req, v, got) ==
    LET acc == AcceptedPreferred(sz, v, req.preferred, Target(req, v))
        rest == SubSeq(got, Len(acc) + 1, Len(got))
    IN  /\ Len(got) >= Len(acc)
        /\ SubSeq(got, 1, Len(acc)) = acc
        /\ Ascending(rest)
        /\ \A x \in SeqToSet(rest) : IsFree(sz, v, x.a) /\ x \notin SeqToSet(acc)
        /\ Cardinality(InteriorFree(sz, v) \ {x.a : x \in SeqToSet(acc)})
              >= Target(req, v) - Len(acc) => Len(got) = Target(req, v)

Usable(sz, v) ==
    IF CIDROf(sz, v) = EmptyCIDR THEN {}
    ELSE IF v = 4
        THEN (FirstOf(CIDROf(sz, v)) + 1) .. (LastOf(CIDROf(sz, v)) - 1)
    ELSE FirstOf(CIDROf(sz, v)) .. LastOf(CIDROf(sz, v))

FreeUsable(sz, v) == Usable(sz, v) \ HeldOf(sz, v)

LowestFree(sz, v, n) ==
    LET low == Lowest(FreeUsable(sz, v), n)
    IN  [i \in 1 .. Len(low) |-> Canon(v, low[i])]

FamilyOf(req) == IF req.version = "ipv4" THEN 4 ELSE 6

\* C13: Allocate(count = n) with no preferred addresses returns the n lowest
\* Free usable addresses of the sub-zone CIDR in ascending order, whatever
\* higher addresses earlier calls allocated.
C13_LowestFreeFirst ==
    (/\ fn.op = "AllocateIPs"
     /\ Request.preferred = <<>>
     /\ Request.version # "both"
     /\ CIDROf(Before, FamilyOf(Request)) # EmptyCIDR) =>
        last.ips = LowestFree(Before, FamilyOf(Request), Request.count)

FamilyError(v) == IF v = 4 THEN "IPv4 allocation failed" ELSE "IPv6 allocation failed"

\* The scan of family v ran out of addresses before the family's count was
\* reached: the family has a CIDR, was asked for addresses, every preferred
\* entry parses, and the call returned fewer addresses than asked.
Exhausted(sz, req, v, ips) ==
    /\ CIDROf(sz, v) # EmptyCIDR
    /\ BadIP \notin SeqToSet(req.preferred)
    /\ Len(OfFamily(ips, v)) < Target(req, v)

\* C14: whenever the fallback scan of a family exhausts the sub-zone CIDR
\* before that family's count is reached, the Allocate response carries a
\* no-capacity error for that family.
C14_ExhaustionReported ==
    fn.op = "AllocateIPs" =>
        \A v \in {4, 6} :
            Exhausted(Before, Request, v, last.ips) =>
                FamilyError(v) \in SeqToSet(last.errors)

Other(v) == IF v = 4 THEN 6 ELSE 4

AllocatedList(sz, v) == IF v = 4 THEN sz.a4 ELSE sz.a6

ReservedList(sz, v) == IF v = 4 THEN sz.r4 ELSE sz.r6

\* Family v was asked for addresses and cannot serve one: it has no CIDR, or
\* every address of its CIDR past the network address is taken.
FamilyFails(sz, req, v) ==
    /\ Target(req, v) > 0
    /\ \/ CIDROf(sz, v) = EmptyCIDR
       \/ FreeUsable(sz, v) \subseteq {FirstOf(CIDROf(sz, v))}

\* Family v was asked for addresses and can serve one.
FamilyServes(sz, req, v) ==
    /\ Target(req, v) > 0
    /\ BadIP \notin SeqToSet(req.preferred)
    /\ InteriorFree(sz, v) # {}

FamilyFailed(req, v, ips) == Target(req, v) > 0 /\ OfFamily(ips, v) = <<>>

\* C15: for version both, when one family fails (no CIDR configured, or no
\* free address) and the other yields at least one address, the response
\* has success = true, its allocated list is exactly the other family's
\* addresses, and those addresses are committed to the sub-zone: the failed
\* family rolls nothing back.
C15_PartialDualStackKept ==
    (fn.op = "AllocateIPs" /\ Request.version = "both") =>
        \A v \in {4, 6} :
            (FamilyFails(Before, Request, v) /\ FamilyServes(Before, Request, Other(v))) =>
                /\ last.success
                /\ last.ips # <<>>
                /\ last.ips = OfFamily(last.ips, Other(v))
                /\ PreferredThenFallback(Before, Request, Other(v), last.ips)
                /\ AllocatedList(After, Other(v))
                      = AllocatedList(Before, Other(v)) \o last.ips
                /\ AllocatedList(After, v) = AllocatedList(Before, v)
                /\ \A w \in {4, 6} : ReservedList(After, w) = ReservedList(Before, w)

\* C15 witness: a dual-stack call found every usable IPv4 address taken,
\* allocated an IPv6 address and answered success.
C15_Witness ==
    /\ fn.op = "AllocateIPs" /\ Request.version = "both"
    /\ Before.v4 # EmptyCIDR /\ Before.v6 # EmptyCIDR
    /\ FamilyFails(Before, Request, 4)
    /\ FamilyFailed(Request, 4, last.ips)
    /\ OfFamily(last.ips, 6) # <<>>
    /\ last.success
    /\ After.a6 = Before.a6 \o last.ips

\* C16: for version both and every count from 1 to 10 Allocate attempts
\* floor(count / 2) IPv4 addresses and count - floor(count / 2) IPv6
\* addresses: neither family returns more than its share, the merged result
\* never exceeds count, and a family with enough free addresses returns
\* exactly its share, so that the two shares add up to count.
C16_DualStackSplit ==
    (fn.op = "AllocateIPs" /\ Request.version = "both") =>
        LET n4 == Len(OfFamily(last.ips, 4))
            n6 == Len(OfFamily(last.ips, 6))
            half == Request.count \div 2
            parses == BadIP \notin SeqToSet(Request.preferred)
            enough4 == parses /\ Cardinality(InteriorFree(Before, 4)) >= half
            enough6 ==
                parses /\ Cardinality(InteriorFree(Before, 6)) >= Request.count - half
        IN  /\ n4 <= half
            /\ n6 <= Request.count - half
            /\ Len(last.ips) = n4 + n6
            /\ Len(last.ips) <= Request.count
            /\ enough4 => n4 = half
            /\ enough6 => n6 = Request.count - half
            /\ (enough4 /\ enough6) => Len(last.ips) = Request.count

\* C16 witness: a dual-stack call for nine addresses returned four IPv4 and
\* five IPv6 addresses.
C16_Witness ==
    /\ fn.op = "AllocateIPs" /\ Request.version = "both"
    /\ Request.count = MaxRequestCount - 1
    /\ Len(OfFamily(last.ips, 4)) = 4
    /\ Len(OfFamily(last.ips, 6)) = 5

SameLists(sz1, sz2) ==
    /\ sz1.a4 = sz2.a4 /\ sz1.a6 = sz2.a6
    /\ sz1.r4 = sz2.r4 /\ sz1.r6 = sz2.r6

\* The address both calls of a pair name, and whether it is an in-range
\* Free address of the sub-zone the pair started from (for the allocation
\* pair, one whose family is the version the request asks for).
PairAddress ==
    IF fn.op = "ReserveThenUnreserve" THEN Request.ips[1] ELSE Request.preferred[1]

PairApplies ==
    /\ fn.op \in {"ReserveThenUnreserve", "AllocateThenDeallocate"}
    /\ PairAddress # BadIP
    /\ IsFree(Before, PairAddress.v, PairAddress.a)
    /\ fn.op = "AllocateThenDeallocate" =>
           Request.version = (IF PairAddress.v = 4 THEN "ipv4" ELSE "ipv6")

\* C17: for an in-range Free address x, Reserve([x]) then Unreserve([x]), and
\* Allocate(preferred = [x], count = 1) then Deallocate([x]), both succeed on
\* x and leave x Free and the four address lists of the sub-zone as they
\* were before the pair.
C17_RoundTripsRestore ==
    PairApplies =>
        /\ fn.res = "true"
        /\ last.success
        /\ last.ips = <<NormalizeIP(PairAddress)>>
        /\ IsFree(After, PairAddress.v, PairAddress.a)
        /\ SameLists(After, Before)

\* C17 witness: each pair has run on a free address given in a
\* non-canonical spelling, in a sub-zone that holds other addresses.
C17_Witness ==
    /\ PairApplies
    /\ PairAddress = Alt(4, 2)
    /\ Before.a4 # <<>>
    /\ last.success
    /\ SameLists(After, Before)

\* The entries of a list of address strings, normalized.
Normalized(ips) == [i \in 1 .. Len(ips) |-> NormalizeIP(ips[i])]

Without(list, gone) == LET Stays(x) == x \notin SeqToSet(gone) IN SelectSeq(list, Stays)

CanReserve(x) == x # BadIP /\ IsFree(Before, x.v, x.a)

CannotReserve(x) == ~CanReserve(x)

CanUnreserve(x) ==
    x # BadIP /\ InRange(Before, x.v, x.a) /\ x.a \in ReservedOf(Before, x.v)

CannotUnreserve(x) == ~CanUnreserve(x)

\* C18: Reserve puts an address in processed, and adds it to Reserved, iff
\* it parses, lies within the sub-zone CIDR of its family and is in neither
\* Allocated nor Reserved; Unreserve puts an address in processed, and
\* removes it from Reserved, iff it lies within that CIDR and is Reserved;
\* every other address lands in failed and changes nothing.
C18_ReservePartition ==
    fn.op = "ManageReservations" =>
        /\ AllocatedList(After, 4) = AllocatedList(Before, 4)
        /\ AllocatedList(After, 6) = AllocatedList(Before, 6)
        /\ IF Request.type = "reserve"
            THEN /\ last.ips = Normalized(SelectSeq(Request.ips, CanReserve))
                 /\ last.failed = Normalized(SelectSeq(Request.ips, CannotReserve))
                 /\ \A v \in {4, 6} :
                        ReservedList(After, v)
                            = ReservedList(Before, v) \o OfFamily(last.ips, v)
            ELSE /\ last.ips = Normalized(SelectSeq(Request.ips, CanUnreserve))
                 /\ last.failed = Normalized(SelectSeq(Request.ips, CannotUnreserve))
                 /\ \A v \in {4, 6} :
                        ReservedList(After, v)
                            = Without(ReservedList(Before, v), last.ips)

\* C18 witness: a Reserve call processed one address and failed another,
\* and an Unreserve call did the same.
C18_Witness ==
    /\ fn.op = "ManageReservations"
    /\ Len(last.ips) = 1 /\ Len(last.failed) = 1
    /\ last.failed[1] # BadIP
    /\ InRange(Before, last.failed[1].v, last.failed[1].a)
    /\ After # Before

CanDeallocate(x) ==
    x # BadIP /\ InRange(Before, x.v, x.a) /\ x.a \in AllocatedOf(Before, x.v)

CannotDeallocate(x) == ~CanDeallocate(x)

\* C19: Deallocate puts an address in processed, and removes it from
\* Allocated, iff it lies within the sub-zone CIDR of its family and is in
\* Allocated, whatever Reserved holds; every other address lands in failed
\* and changes nothing.
C19_DeallocatePartition ==
    fn.op = "DeallocateIPs" =>
        /\ last.ips = Normalized(SelectSeq(Request.ips, CanDeallocate))
        /\ last.failed = Normalized(SelectSeq(Request.ips, CannotDeallocate))
        /\ \A v \in {4, 6} :
               /\ AllocatedList(After, v) = Without(AllocatedList(Before, v), last.ips)
               /\ ReservedList(After, v) = ReservedList(Before, v)

\* C19 witness: a Deallocate call processed an address that was in Allocated
\* and in Reserved, and failed an address that was only in Reserved.
C19_Witness ==
    /\ fn.op = "DeallocateIPs"
    /\ Len(last.ips) = 1 /\ Len(last.failed) = 1
    /\ last.ips[1].a \in ReservedOf(Before, last.ips[1].v)
    /\ last.failed[1] # BadIP
    /\ last.failed[1].a \in ReservedOf(Before, last.failed[1].v)
    /\ last.ips[1] \notin SeqToSet(AllocatedList(After, last.ips[1].v))

Occurrences(seq, x) == Cardinality({i \in 1 .. Len(seq) : seq[i] = x})

\* The list a processed address of family v is written to or removed from.
TargetList(sz, v) ==
    IF fn.op = "DeallocateIPs" THEN AllocatedList(sz, v) ELSE ReservedList(sz, v)

\* A processed address has taken effect in sub-zone sz.
Committed(sz, x) ==
    IF fn.op = "ManageReservations" /\ Request.type = "reserve"
        THEN Occurrences(TargetList(sz, x.v), x)
                = Occurrences(TargetList(Before, x.v), x) + Occurrences(last.ips, x)
        ELSE x \notin SeqToSet(TargetList(sz, x.v))

\* C20: for Reserve, Unreserve and Deallocate every input address appears
\* in exactly one of processed or failed, so that |processed| + |failed| =
\* |input|, and the processed addresses of both families are committed by the
\* one write of the call: all of them, or (when nothing is processed and the
\* call answers failure) none, the lists staying as they were.
C20_FullPartitionOneWrite ==
    fn.op \in {"DeallocateIPs", "ManageReservations"} =>
        /\ Len(last.ips) + Len(last.failed) = Len(Request.ips)
        /\ \A x \in SeqToSet(Normalized(Request.ips)) :
               Occurrences(last.ips, x) + Occurrences(last.failed, x)
                   = Occurrences(Normalized(Request.ips), x)
        /\ SeqToSet(last.ips) \cap SeqToSet(last.failed) = {}
        /\ IF last.success
               THEN last.ips # <<>> /\ \A x \in SeqToSet(last.ips) : Committed(After, x)
               ELSE last.ips = <<>> /\ SameLists(After, Before)

\* C20 witness: a Reserve call processed an IPv4 and an IPv6 address, and
\* both are in the Reserved lists it left.
C20_Witness ==
    /\ fn.op = "ManageReservations" /\ Request.type = "reserve"
    /\ Len(last.ips) = 2
    /\ OfFamily(last.ips, 4) # <<>> /\ OfFamily(last.ips, 6) # <<>>
    /\ SeqToSet(OfFamily(last.ips, 4)) \subseteq SeqToSet(After.r4)
    /\ SeqToSet(OfFamily(last.ips, 6)) \subseteq SeqToSet(After.r6)
    /\ ~SameLists(After, Before)

---------------------------------------------------------------------------
(* Claims about the address operations run one at a time *)

AllSubZones(db) ==
    UNION {UNION {SeqToSet(z.subs) : z \in SeqToSet(r.zones)} :
           r \in SeqToSet(db)}

\* The addresses a stored list holds, whatever their spelling.
Addrs(list) == {<<list[i].v, list[i].a>> : i \in 1 .. Len(list)}

\* C2: run one at a time from empty address sets, Allocate, Deallocate,
\* Reserve and Unreserve leave no address both Allocated and Reserved in a
\* sub-zone, for either IP version.
C2_AllocatedReservedDisjoint ==
    \A sz \in AllSubZones(regions) :
        /\ Addrs(sz.a4) \cap Addrs(sz.r4) = {}
        /\ Addrs(sz.a6) \cap Addrs(sz.r6) = {}

\* C2 witness: a sub-zone holds allocated and reserved IPv4 addresses, and
\* the last Reserve was refused for an address that is allocated there.
C2_Witness ==
    /\ last.op = "Reserve"
    /\ last.failed # <<>>
    /\ \E sz \in AllSubZones(regions) :
           /\ sz.r4 # <<>>
           /\ Addrs(last.failed) \subseteq Addrs(sz.a4)

IsIPv4NetworkOrBroadcast(x, cidrStr) ==
    /\ cidrStr # EmptyCIDR
    /\ x[1] = 4
    /\ \/ x[2] = ParseCIDR(cidrStr).ip
       \/ x[2] = getLastIPInNetwork(ParseCIDR(cidrStr)).a

\* C3: neither the network address nor the broadcast address of a sub-zone's
\* IPv4 CIDR is ever a member of its Allocated or Reserved set.
C3_NoNetworkOrBroadcastMember ==
    \A sz \in AllSubZones(regions) :
        \A x \in Addrs(sz.a4) \cup Addrs(sz.r4) :
            ~IsIPv4NetworkOrBroadcast(x, sz.v4)

Paths(db) ==
    UNION {UNION {{<<i, j, k>> : k \in 1 .. Len(db[i].zones[j].subs)} :
                  j \in 1 .. Len(db[i].zones)} :
           i \in 1 .. Len(db)}

SubZoneAt(db, p) == db[p[1]].zones[p[2]].subs[p[3]]

\* The addresses that are not Free in a sub-zone; every other address is
\* Free in it.
Members(sz) ==
    Addrs(sz.a4) \cup Addrs(sz.a6) \cup Addrs(sz.r4) \cup Addrs(sz.r6)

Status(sz, x) ==
    LET allocated == x \in Addrs(sz.a4) \cup Addrs(sz.a6)
        reserved == x \in Addrs(sz.r4) \cup Addrs(sz.r6)
    IN  IF allocated /\ reserved THEN "Both"
        ELSE IF allocated THEN "Allocated"
        ELSE IF reserved THEN "Reserved"
        ELSE "Free"

LifecycleEdge(op, from, to) ==
    \/ from = to
    \/ op = "Allocate" /\ from = "Free" /\ to = "Allocated"
    \/ op = "Deallocate" /\ from = "Allocated" /\ to = "Free"
    \/ op = "Reserve" /\ from = "Free" /\ to = "Reserved"
    \/ op = "Unreserve" /\ from = "Reserved" /\ to = "Free"

ReturnedWereFree ==
    LET f == findSubZoneWithHierarchy(regions, last'.target[1],
                                      last'.target[2], last'.target[3])
    IN  (last'.op = "Allocate" /\ last'.ips # <<>>) =>
            /\ f.err = "nil"
            /\ \A x \in Addrs(last'.ips) :
                   Status(SubZoneAt(regions, <<f.ri, f.zi, f.si>>), x) = "Free"

\* C4: run one at a time, an operation changes the state of an address only
\* along Free -> Allocated (Allocate), Allocated -> Free (Deallocate),
\* Free -> Reserved (Reserve) and Reserved -> Free (Unreserve), and Allocate
\* returns only addresses that were Free in the sub-zone it read.
C4_OnlyLifecycleEdges ==
    [][/\ \A p \in Paths(regions) :
             \A x \in Members(SubZoneAt(regions, p))
                         \cup Members(SubZoneAt(regions', p)) :
                 LifecycleEdge(last'.op, Status(SubZoneAt(regions, p), x),
                               Status(SubZoneAt(regions', p), x))
       /\ ReturnedWereFree]_vars

\* C4 witness: Allocate has answered with an address of a sub-zone that also
\* holds a reserved address.
C4_Witness ==
    /\ last.op = "Allocate"
    /\ last.ips # <<>>
    /\ \E sz \in AllSubZones(regions) :
           /\ sz.r4 # <<>>
           /\ Addrs(last.ips) \subseteq Addrs(sz.a4)

---------------------------------------------------------------------------
(* Claims about the address operations run concurrently *)

SameSubZone(a, b) ==
    /\ a.req.region = b.req.region
    /\ a.req.zone = b.req.zone
    /\ a.req.sub = b.req.sub

\* Calls i < j where j read the sub-zone before i wrote, and both have
\* written since.
BothReadFirst(i, j) ==
    /\ i \in calls[j].inflight
    /\ calls[i].pc = "done"
    /\ calls[j].pc = "done"
    /\ SameSubZone(calls[i], calls[j])

\* C1: when two Allocate calls on one sub-zone both read it before either
\* writes, no address is returned as allocated by both.
C1_NoAddressAllocatedTwice ==
    \A i, j \in 1 .. Len(calls) :
        (/\ BothReadFirst(i, j)
         /\ calls[i].op = "Allocate"
         /\ calls[j].op = "Allocate")
        => Addrs(calls[i].resp.ips) \cap Addrs(calls[j].resp.ips) = {}

IsReserve(call) == call.op = "ManageReservations" /\ call.req.type = "reserve"

\* C5: when an Allocate and a Reserve on one sub-zone interleave their reads
\* and writes, no address ends up both Allocated and Reserved in it.
C5_ConcurrentAllocateReserveDisjoint ==
    \A i, j \in 1 .. Len(calls) :
        (/\ BothReadFirst(i, j)
         /\ \/ calls[i].op = "Allocate" /\ IsReserve(calls[j])
            \/ IsReserve(calls[i]) /\ calls[j].op = "Allocate")
        => \A sz \in AllSubZones(regions) :
               sz.name = calls[i].req.sub =>
                   /\ Addrs(sz.a4) \cap Addrs(sz.r4) = {}
                   /\ Addrs(sz.a6) \cap Addrs(sz.r6) = {}

---------------------------------------------------------------------------
(* Claims about the tree *)

InsideCIDR(x, cidrStr) ==
    /\ cidrStr # EmptyCIDR
    /\ cidrStr.v = x[1]
    /\ x[2] \in Block(cidrStr)

\* C6: with UpdateSubZone among the operations, every address in a
\* sub-zone's Allocated or Reserved set of a version lies within the
\* sub-zone's current CIDR of that version.
C6_MembersInsideCurrentCIDR ==
    \A sz \in AllSubZones(regions) :
        /\ \A x \in Addrs(sz.a4) \cup Addrs(sz.r4) : InsideCIDR(x, sz.v4)
        /\ \A x \in Addrs(sz.a6) \cup Addrs(sz.r6) : InsideCIDR(x, sz.v6)

Nested(parentCIDR, childCIDR) ==
    (parentCIDR # EmptyCIDR /\ childCIDR # EmptyCIDR)
        => Block(childCIDR) \subseteq Block(parentCIDR)

\* C7: every zone CIDR is fully contained in its region's CIDR of the same
\* version and every sub-zone CIDR in its zone's, whenever both are set.
C7_ChildrenInsideParents ==
    \A r \in SeqToSet(regions) : \A z \in SeqToSet(r.zones) :
        /\ Nested(r.v4, z.v4)
        /\ Nested(r.v6, z.v6)
        /\ \A sz \in SeqToSet(z.subs) :
               /\ Nested(z.v4, sz.v4)
               /\ Nested(z.v6, sz.v6)

Disjoint(cidr1, cidr2) ==
    (cidr1 # EmptyCIDR /\ cidr2 # EmptyCIDR)
        => Block(cidr1) \cap Block(cidr2) = {}

SiblingsDisjoint(seq) ==
    \A i, j \in 1 .. Len(seq) :
        i < j => /\ Disjoint(seq[i].v4, seq[j].v4)
                 /\ Disjoint(seq[i].v6, seq[j].v6)

\* C8: no two zones of a region and no two sub-zones of a zone have
\* overlapping CIDRs of the same version.
C8_SiblingCIDRsDisjoint ==
    \A r \in SeqToSet(regions) :
        /\ SiblingsDisjoint(r.zones)
        /\ \A z \in SeqToSet(r.zones) : SiblingsDisjoint(z.subs)

NamesUnique(seq) ==
    \A i, j \in 1 .. Len(seq) : i < j => seq[i].name # seq[j].name

\* C9: region names are unique, zone names are unique within their region
\* and sub-zone names are unique within their zone.
C9_SiblingNamesUnique ==
    /\ NamesUnique(regions)
    /\ \A r \in SeqToSet(regions) :
           /\ NamesUnique(r.zones)
           /\ \A z \in SeqToSet(r.zones) : NamesUnique(z.subs)

---------------------------------------------------------------------------
(* Claims about the frame of the address operations *)

\* The tree without its address lists: names, CIDRs and membership.
Skeleton(db) ==
    [i \in 1 .. Len(db) |->
        [name |-> db[i].name, v4 |-> db[i].v4, v6 |-> db[i].v6,
         zones |-> [j \in 1 .. Len(db[i].zones) |->
            [name |-> db[i].zones[j].name, v4 |-> db[i].zones[j].v4,
             v6 |-> db[i].zones[j].v6,
             subs |-> [k \in 1 .. Len(db[i].zones[j].subs) |->
                [name |-> db[i].zones[j].subs[k].name,
                 v4 |-> db[i].zones[j].subs[k].v4,
                 v6 |-> db[i].zones[j].subs[k].v6]]]]]]

AddressOps == {"Allocate", "Deallocate", "Reserve", "Unreserve"}

\* C21: a successful Allocate, Deallocate, Reserve or Unreserve leaves every
\* name, every CIDR and the zone / sub-zone membership of the tree unchanged;
\* only the address lists change.
C21_TreeUnchangedByAddressOps ==
    [][(last'.op \in AddressOps /\ last'.success)
           => Skeleton(regions') = Skeleton(regions)]_vars

\* C21 witness: an address operation has answered success and the lists of
\* the tree, empty at the start, hold an address.
C21_Witness ==
    /\ last.op \in AddressOps
    /\ last.success
    /\ TotalEntries(regions) > 0
    /\ Len(regions[1].zones[1].subs) = 2

---------------------------------------------------------------------------
(* Claims about the CRUD operations run one at a time *)

HasRegion(db, rn) == \E i \in 1 .. Len(db) : db[i].name = rn

HasZone(db, rn, zn) ==
    \E i \in 1 .. Len(db) :
        /\ db[i].name = rn
        /\ \E j \in 1 .. Len(db[i].zones) : db[i].zones[j].name = zn

HasSubZone(db, rn, zn, sn) ==
    \E i \in 1 .. Len(db) :
        /\ db[i].name = rn
        /\ \E j \in 1 .. Len(db[i].zones) :
            /\ db[i].zones[j].name = zn
            /\ \E k \in 1 .. Len(db[i].zones[j].subs) :
                   db[i].zones[j].subs[k].name = sn

\* The outcomes of the calls that name region rn, zone zn of it, and
\* sub-zone sn of that zone.
RegionCalls(db, rn) ==
    {CreateZone(db, rn, req) : req \in CreateRequests(ZoneNames)}

ZoneCalls(db, rn, zn) ==
    {UpdateZone(db, rn, zn, req) : req \in UpdateRequests(ZoneNames)}
    \cup {DeleteZone(db, rn, zn)}
    \cup {CreateSubZone(db, rn, zn, req) : req \in CreateRequests(SubZoneNames)}

SubZoneCalls(db, rn, zn, sn) ==
    {UpdateSubZone(db, rn, zn, sn, req) : req \in UpdateRequests(SubZoneNames)}
    \cup {DeleteSubZone(db, rn, zn, sn)}

\* The step is the call with outcome r, and the call has answered failure
\* and left the collection as it was.
FailsUnchanged(r) ==
    (regions' = r.db /\ last' = r.resp) => (~last'.success /\ regions' = regions)

\* C22: a CreateZone, CreateSubZone, UpdateZone, UpdateSubZone, DeleteZone or
\* DeleteSubZone call that names a region, zone or sub-zone that does not
\* exist answers failure and leaves the stored tree unchanged.
C22_MissingTargetFails ==
    [][\A rn \in RegionNames, zn \in ZoneNames, sn \in SubZoneNames :
        /\ ~HasRegion(regions, rn) =>
               \A r \in RegionCalls(regions, rn) : FailsUnchanged(r)
        /\ ~HasZone(regions, rn, zn) =>
               \A r \in ZoneCalls(regions, rn, zn) : FailsUnchanged(r)
        /\ ~HasSubZone(regions, rn, zn, sn) =>
               \A r \in SubZoneCalls(regions, rn, zn, sn) : FailsUnchanged(r)]_vars

---------------------------------------------------------------------------
(* Claims about CreateZone applied once *)

RegionBefore == fn.b[1]

CIDRsOf(node) == {node.v4, node.v6} \ {EmptyCIDR}

\* A CIDR of the request shares an address with the same-version CIDR of a
\* zone the region holds.
OverlapsAZone(region, req) ==
    \E j \in 1 .. Len(region.zones) :
        \E c \in CIDRsOf(req), z \in CIDRsOf(region.zones[j]) :
            c.v = z.v /\ ShareAnAddress(c, z)

\* A CIDR of the request has an address outside the region's CIDR of its
\* version.
OutsideRegion(region, req) ==
    \E c \in CIDRsOf(req), p \in CIDRsOf(region) :
        c.v = p.v /\ ~(Block(c) \subseteq Block(p))

\* C23: CreateZone fails and leaves the region's zone list unchanged whenever
\* the requested IPv4 or IPv6 CIDR overlaps the same-version CIDR of a zone
\* of that region, or is not contained in the region's CIDR.
C23_CreateZoneRejects ==
    (/\ fn.op = "CreateZone" /\ fn.res = RegionBefore.name
     /\ (OverlapsAZone(RegionBefore, Request) \/ OutsideRegion(RegionBefore, Request)))
        => (~last.success /\ regions[1].zones = RegionBefore.zones)

\* C23 witness: the region holds a zone, the request is a new name with an
\* IPv4 CIDR inside the region's that is the upper half of that zone's block,
\* and the call has failed with an overlap error.
C23_Witness ==
    /\ fn.op = "CreateZone" /\ fn.res = RegionBefore.name
    /\ RegionBefore.v4 = RegionV4
    /\ \E j \in 1 .. Len(RegionBefore.zones) : RegionBefore.zones[j].v4 = ZoneV4
    /\ Request.name = "z3" /\ Request.v4 = Sub2V4 /\ Request.v6 = EmptyCIDR
    /\ ~OutsideRegion(RegionBefore, Request)
    /\ ~last.success
    /\ last.errors = <<"IPv4 CIDR overlaps with existing zone">>

---------------------------------------------------------------------------
(* Further claims about the service operations applied once *)

\* C24: AllocateIPs for version ipv4 or ipv6 on a sub-zone that has no CIDR
\* of that version answers success = false with the configuration error of
\* that family, returns no address and leaves the stored lists unchanged.
C24_MissingCIDRFails ==
    (/\ fn.op = "AllocateIPs"
     /\ Request.version \in {"ipv4", "ipv6"}
     /\ CIDROf(Before, FamilyOf(Request)) = EmptyCIDR)
        => /\ ~last.success
           /\ last.ips = <<>>
           /\ last.errors = <<FamilyError(FamilyOf(Request))>>
           /\ SameLists(Before, After)

\* C24 witness: an IPv4 request on a sub-zone with an IPv6 CIDR only, whose
\* preferred list names an IPv4 address, has failed.
C24_Witness ==
    /\ fn.op = "AllocateIPs"
    /\ Request.version = "ipv4"
    /\ Before.v4 = EmptyCIDR /\ Before.v6 # EmptyCIDR
    /\ Request.preferred = <<Canon(4, 1)>>
    /\ ~last.success
    /\ last.errors = <<"IPv4 allocation failed">>

---------------------------------------------------------------------------
(* Claims about the scanner called repeatedly *)

\* C25: for every CIDR, calling GetNextAvailableIP repeatedly while folding
\* each result into the exclusion set yields a strictly ascending sequence of
\* addresses with no repeats that never contains the IPv4 network or
\* broadcast address of the block.
C25_ScanAscending ==
    fn.op \in Scanners =>
        /\ Ascending(fn.b)
        /\ \A i \in 1 .. Len(fn.b) : \A j \in 1 .. Len(fn.b) :
               i # j => fn.b[i] # fn.b[j]
        /\ \A i \in 1 .. Len(fn.b) :
               ~IsIPv4NetworkOrBroadcast(<<fn.b[i].v, fn.b[i].a>>, fn.a.cidr)

---------------------------------------------------------------------------
(* Claims about the creation of sub-zones *)

\* The sub-zones the call has added to the collection.
NewSubZones == AllSubZones(regions) \ AllSubZones(fn.b)

\* C28: immediately after a sub-zone is created, by CreateSubZone or embedded
\* in a CreateRegion request, its four address lists are empty.
C28_NewSubZoneEmpty ==
    (fn.op \in {"CreateRegion", "CreateSubZone"} /\ last.success) =>
        \A sz \in NewSubZones : SubZoneEntries(sz) = 0

\* The addresses from FirstUsable to LastUsable of a CIDR, as GetIPRange
\* gives them, that no string of the set used names.
FreeInRange(cidr, used) ==
    {a \in GetIPRange(cidr).first.a .. GetIPRange(cidr).last.a :
        Canon(cidr.v, a) \notin used}

\* The strings excluded when the scan made its i-th call.
UsedBefore(i) ==
    SeqToSet(fn.a.allocated) \cup SeqToSet(fn.a.reserved)
        \cup {fn.b[k] : k \in 1 .. (i - 1)}

\* C29: GetNextAvailableIP returns the lowest address between FirstUsable
\* and LastUsable that is not in the exclusion sets; for an IPv6 block with
\* empty exclusion sets that is the block's network address.
C29_LowestInUsableRange ==
    fn.op = "GetNextAvailableIP" =>
        \A i \in 1 .. Len(fn.b) :
            /\ FreeInRange(fn.a.cidr, UsedBefore(i)) # {}
            /\ fn.b[i].a = Lowest(FreeInRange(fn.a.cidr, UsedBefore(i)), 1)[1]

\* C30: for every CIDR block, one that covers the whole address space or
\* ends at the all-ones address included, and every exclusion set, the scan
\* of GetNextAvailableIP terminates: it returns a free address or the
\* no-capacity error, and never runs on for ever.
C30_ScanTerminates ==
    fn.op \in Scanners => fn.res \in {"nil", "no available IPs"}

---------------------------------------------------------------------------
(* Claims about repeated addresses in a request *)

NoDuplicates(list) == \A i, j \in 1 .. Len(list) : list[i] = list[j] => i = j

\* C31: after Allocate and Reserve calls run one at a time no address occurs
\* more than once in a sub-zone's allocated lists or reserved lists, also
\* when the preferred list of the Allocate or the address list of the Reserve
\* repeats a free address of the sub-zone's range.
C31_NoAddressListedTwice ==
    \A sz \in AllSubZones(regions) :
        /\ NoDuplicates(sz.a4) /\ NoDuplicates(sz.a6)
        /\ NoDuplicates(sz.r4) /\ NoDuplicates(sz.r6)

---------------------------------------------------------------------------
(* Claims about the sub-zones an address operation writes to *)

ListsOf(sz) == <<sz.a4, sz.a6, sz.r4, sz.r6>>

\* The sub-zones whose address lists the step changes.
Written ==
    {p \in Paths(regions) \cap Paths(regions') :
        ListsOf(SubZoneAt(regions', p)) # ListsOf(SubZoneAt(regions, p))}

\* The sub-zone the operation read and validated against.
ReadOf(target) ==
    LET f == findSubZoneWithHierarchy(regions, target[1], target[2], target[3])
    IN  IF f.err = "nil" THEN {<<f.ri, f.zi, f.si>>} ELSE {}

\* C32: a successful Allocate, Deallocate, Reserve or Unreserve changes the
\* address lists of exactly one sub-zone, the one it read and validated
\* against, and leaves the four lists of every other sub-zone unchanged, also
\* in a tree where UpdateSubZone has given two sub-zones of a zone one name.
C32_OnlyTheSubZoneRead ==
    [][(last'.op \in AddressOps /\ last'.success)
           => Written = ReadOf(last'.target)]_vars

---------------------------------------------------------------------------
(* Claims about Allocate run concurrently with the CRUD operations *)

\* The call's addresses are allocated in a sub-zone the request names.
StoredFor(db, call) ==
    \E p \in Paths(db) :
        /\ db[p[1]].name = call.req.region
        /\ db[p[1]].zones[p[2]].name = call.req.zone
        /\ SubZoneAt(db, p).name = call.req.sub
        /\ Addrs(call.resp.ips)
               \subseteq Addrs(SubZoneAt(db, p).a4) \cup Addrs(SubZoneAt(db, p).a6)

Completes(i) ==
    /\ calls[i].pc = "read"
    /\ calls'[i].pc = "done"
    /\ calls'[i].op = "Allocate"

\* C33: when Allocate answers success with the addresses L, every address of
\* L is in the allocated lists of the sub-zone the request names at the
\* moment the call completes, whatever DeleteSubZone, DeleteZone, UpdateZone
\* or UpdateSubZone did to the region between the call's read and its write.
C33_ReturnedAddressesStored ==
    [][\A i \in 1 .. Len(calls) :
           (Completes(i) /\ calls'[i].resp.success)
               => StoredFor(regions', calls'[i])]_vars

---------------------------------------------------------------------------
(* Claims about the way back to Free *)

\* The request that names address x in the sub-zone at path p.
ReleaseRequest(db, p, x, type) ==
    [region |-> db[p[1]].name, zone |-> db[p[1]].zones[p[2]].name,
     sub |-> SubZoneAt(db, p).name, ips |-> <<x>>, type |-> type]

\* Deallocate naming x answers success and x has left the allocated lists.
DeallocateFrees(db, p, x) ==
    LET req == ReleaseRequest(db, p, x, "deallocate")
        r == DeallocateIPsCommit(db, req, DeallocateIPsCompute(db, req))
    IN  /\ r.resp.success
        /\ x \notin SeqToSet(SubZoneAt(r.db, p).a4) \cup SeqToSet(SubZoneAt(r.db, p).a6)

\* Unreserve naming x answers success and x has left the reserved lists.
UnreserveFrees(db, p, x) ==
    LET req == ReleaseRequest(db, p, x, "unreserve")
        r == ManageReservationsCommit(db, req, ManageReservationsCompute(db, req))
    IN  /\ r.resp.success
        /\ x \notin SeqToSet(SubZoneAt(r.db, p).r4) \cup SeqToSet(SubZoneAt(r.db, p).r6)

\* C34: in every reachable state each address in a sub-zone's allocated lists
\* can be returned to Free by a Deallocate naming it, and each address in its
\* reserved lists by an Unreserve naming it, also after UpdateSubZone has
\* changed the sub-zone's CIDR.
C34_NoAddressStuck ==
    \A p \in Paths(regions) :
        /\ \A x \in SeqToSet(SubZoneAt(regions, p).a4) \cup SeqToSet(SubZoneAt(regions, p).a6) :
               DeallocateFrees(regions, p, x)
        /\ \A x \in SeqToSet(SubZoneAt(regions, p).r4) \cup SeqToSet(SubZoneAt(regions, p).r6) :
               UnreserveFrees(regions, p, x)

---------------------------------------------------------------------------
(* Claims about the number of addresses Allocate returns *)

\* C35: Allocate for a single version returns at most count addresses, and
\* fewer than count only when the sub-zone it read holds no further Free
\* usable address in the CIDR of that version.
C35_ShortOnlyWhenExhausted ==
    (fn.op = "AllocateIPs" /\ Request.version # "both") =>
        /\ Len(last.ips) <= Request.count
        /\ Len(last.ips) < Request.count =>
               FreeUsable(Before, FamilyOf(Request))
                   \subseteq {x.a : x \in SeqToSet(last.ips)}

---------------------------------------------------------------------------
(* Claims about the batch scan *)

\* GetNextAvailableIP called up to limit times, each result joining the
\* allocated list of the next call.
RECURSIVE NextAvailableFold(_, _, _, _, _)
NextAvailableFold(cidr, allocated, reserved, limit, acc) ==
    IF Len(acc) >= limit THEN [hang |-> FALSE, ips |-> acc]
    ELSE LET r == GetNextAvailableIP(cidr, allocated \o acc, reserved)
         IN  IF r.err = "hang" THEN [hang |-> TRUE, ips |-> acc]
             ELSE IF r.err # "nil" THEN [hang |-> FALSE, ips |-> acc]
             ELSE NextAvailableFold(cidr, allocated, reserved, limit,
                                    Append(acc, r.ip))

SameAsFold ==
    LET fold == NextAvailableFold(fn.a.cidr, fn.a.allocated, fn.a.reserved,
                                  fn.a.limit, <<>>)
    IN  /\ (fn.res = "hang") = fold.hang
        /\ fn.b = fold.ips

\* C36: GetAvailableIPsInRange(cidr, allocated, reserved, limit) returns the
\* sequence that GetNextAvailableIP produces when it is called up to limit
\* times and each result joins the exclusion set: ascending, at most limit
\* long, and without any excluded, network or broadcast address.
C36_BatchIsRepeatedNext ==
    fn.op = "GetAvailableIPsInRange" =>
        /\ SameAsFold
        /\ Ascending(fn.b)
        /\ Len(fn.b) <= fn.a.limit
        /\ \A x \in SeqToSet(fn.b) :
               /\ x \notin SeqToSet(fn.a.allocated) \cup SeqToSet(fn.a.reserved)
               /\ ~isNetworkOrBroadcast(x, ParseCIDR(fn.a.cidr))

---------------------------------------------------------------------------
(* Claims about the scanner and the count *)

\* C37: for every CIDR, IPv4 /31 and /32 blocks and IPv6 blocks included, the
\* number of distinct addresses that GetNextAvailableIP returns, called from
\* empty lists with each result joining the allocated list until it fails,
\* equals CountIPsInCIDR of the CIDR.
C37_ScanCountIsCountIPsInCIDR ==
    (/\ fn.op = "GetNextAvailableIP"
     /\ fn.a.allocated = <<>> /\ fn.a.reserved = <<>>
     /\ fn.res = "no available IPs")
        => Cardinality(SeqToSet(fn.b)) = CountIPsInCIDR(fn.a.cidr)

---------------------------------------------------------------------------
(* Claims about the statistics *)

\* The number of addresses of family v that Allocate calls without preferred
\* addresses return from sub-zone sz until the scan fails.
ScanObtainable(sz, v) ==
    Len(NextAvailableFold(CIDROf(sz, v), AllocatedList(sz, v),
                          ReservedList(sz, v), 2^AddrBits, <<>>).ips)

\* The number of addresses of family v that an Allocate naming the address
\* as its preferred one returns from sub-zone sz.
PreferredObtainable(sz, v) ==
    LET version == IF v = 4 THEN "ipv4" ELSE "ipv6"
        Got(a) == allocateIPsForVersionEnhanced(sz, <<Canon(v, a)>>, 1,
                                                version).ips = <<Canon(v, a)>>
    IN  Cardinality({a \in FirstOf(CIDROf(sz, v)) .. LastOf(CIDROf(sz, v)) :
                        Got(a)})

StatsOf(p) ==
    GetIPStats(regions, regions[p[1]].name, regions[p[1]].zones[p[2]].name,
               SubZoneAt(regions, p).name)

AvailableIsObtainable(sz, v, available) ==
    /\ available >= 0
    /\ available \in {ScanObtainable(sz, v), PreferredObtainable(sz, v)}

\* C38: in every state reachable by Allocate, Deallocate, Reserve and
\* Unreserve calls the available count that GetIPStats reports for a
\* version, CountIPsInCIDR - |Allocated| - |Reserved|, is never negative and
\* is the number of addresses of the version a further Allocate can obtain,
\* be it counted over the fallback scan or over the preferred addresses.
C38_AvailableCountIsObtainable ==
    \A p \in Paths(regions) :
        /\ StatsOf(p).err = "nil"
        /\ StatsOf(p).has_ipv4_available_count =>
               AvailableIsObtainable(SubZoneAt(regions, p), 4,
                                     StatsOf(p).ipv4_available_count)
        /\ StatsOf(p).has_ipv6_available_count =>
               AvailableIsObtainable(SubZoneAt(regions, p), 6,
                                     StatsOf(p).ipv6_available_count)

---------------------------------------------------------------------------
(* Claims about the two versions of ValidateCIDRHierarchy *)

UnderDetected(p, c) ==
    /\ p # EmptyCIDR /\ c # EmptyCIDR
    /\ ValidateCIDRHierarchyNetworkOnly(p, c) = "nil"
    /\ ValidateCIDRHierarchy(p, c) # "nil"

UpperEndOutside(p, c) ==
    ~Contains(ParseCIDR(p), getLastIPInNetwork(ParseCIDR(c)))

UnderDetectedPairs ==
    {pc \in HierarchyCIDRStrings \X HierarchyCIDRStrings :
        UnderDetected(pc[1], pc[2]) /\ UpperEndOutside(pc[1], pc[2])}

\* C39: there is a pair of well-formed parent and child CIDRs that the
\* version of ValidateCIDRHierarchy looking only at the child's network
\* address accepts and the version looking at the child's first and last
\* address rejects; every pair the two versions disagree on is of that kind,
\* accepted by the first and rejected by the second because the child's last
\* address is outside the parent.
C39_NetworkOnlyUnderDetects ==
    /\ UnderDetectedPairs # {}
    /\ fn.op = "ValidateCIDRHierarchyNetworkOnly" =>
           /\ ValidateCIDRHierarchy(fn.a, fn.b) = "nil" => fn.res = "nil"
           /\ UnderDetected(fn.a, fn.b) => UpperEndOutside(fn.a, fn.b)

\* C39 witness: the network-address-only version has accepted a child that
\* the first-and-last version rejects.
C39_Witness ==
    /\ fn.op = "ValidateCIDRHierarchyNetworkOnly"
    /\ fn.res = "nil"
    /\ UnderDetected(fn.a, fn.b)
    /\ UpperEndOutside(fn.a, fn.b)

====
